---- MODULE Spec2Model ----
(***************************************************************************)
(* Connection-accepting HTTP service of rust-integration-services.         *)
(*                                                                         *)
(* The repository holds three generations of the server:                   *)
(*   "http_receiver"        src/src/http/http_receiver.rs  (HttpReceiver)   *)
(*   "http_server"          src/src/http/http_server.rs    (HttpServer)     *)
(*   "server_http_server"   src/src/http/server/http_server.rs (HttpServer) *)
(* The variable `variant` says which one is running; every action follows  *)
(* the code of that generation.  The lifecycle event handler of            *)
(* src/src/common/event_handler.rs is modelled by the eh* variables and    *)
(* has its own specification SpecEH.  The transport classifier             *)
(* (HttpReceiver::is_connection_tls) run on one stream is SpecCls, and the *)
(* router of HttpServer (route, then incoming_request) is SpecRouter.      *)
(* Route registration in every generation is SpecRoutes.  The headers of   *)
(* HttpResponse and HttpRequest are SpecResp and SpecReq, the scheduler's  *)
(* first run time is SpecSched and the HttpStatus conversions SpecStatus.  *)
(***************************************************************************)
EXTENDS Integers, Sequences, FiniteSets, TLC

\* ---------------------------------------------------------------- bounds
MaxConn == 2           \* connections accepted in one run
MaxEvents == 4         \* events sent through one EventHandler in one run
\* capacity of the bounded event channel of HttpReceiver: mpsc::channel(128)
\* in the source, scaled down so that a full channel is reachable with
\* MaxConn connections (each connection publishes at most three events)
EventChannelCapacity == 2

Conns == 1..MaxConn

Variants == {"http_receiver", "http_server", "server_http_server"}

\* ------------------------------------------------------------- responses
\* HttpResponse::not_found(): status 404, no headers, empty body
not_found == [status |-> 404, body |-> ""]
\* HttpResponse::internal_server_error(): status 500, no headers, empty body
internal_server_error == [status |-> 500, body |-> ""]
\* HttpResponse::ok(): status 200, no headers, empty body
ok == [status |-> 200, body |-> ""]
NoResp == [status |-> 0, body |-> ""]

\* ---------------------------------------------------------------- routes
\* a path is a sequence of segments; a pattern segment is a literal or a
\* named parameter
Lit(s) == <<"lit", s>>
Par(n) == <<"par", n>>
\* the routes registered before receive(): "/" and "/users/{id}", both GET
RegisteredRoutes == { [method |-> "GET", pattern |-> <<>>],
                      [method |-> "GET", pattern |-> <<Lit("users"), Par("id")>>] }
\* the requests clients send: GET /, GET /users/42, GET /missing
Requests == { [method |-> "GET", path |-> <<>>],
              [method |-> "GET", path |-> <<"users", "42">>],
              [method |-> "GET", path |-> <<"missing">>] }
NoReq == [method |-> "", path |-> <<>>]

\* the registered handlers: "/" answers HttpResponse::ok(), "/users/{id}"
\* answers 200 with the id as body
HandlerResponse(r) ==
    IF r.path = <<>> THEN ok ELSE [status |-> 200, body |-> r.path[Len(r.path)]]

\* matchit Router::at: same number of segments, a literal segment must be
\* equal, a named parameter takes any non-empty segment
PatternMatches(pattern, path) ==
    /\ Len(pattern) = Len(path)
    /\ \A i \in 1..Len(pattern) :
          \/ pattern[i][1] = "par" /\ path[i] # ""
          \/ pattern[i][1] = "lit" /\ pattern[i][2] = path[i]

\* HttpReceiver::route stores the key "METHOD|route" and receive() looks up
\* "method|path" by string equality: the pattern text is compared literally,
\* so a "{id}" segment equals no ordinary path segment
LiteralKeyMatches(pattern, path) ==
    /\ Len(pattern) = Len(path)
    /\ \A i \in 1..Len(pattern) : pattern[i][1] = "lit" /\ pattern[i][2] = path[i]

\* does the router of generation v resolve request r to a handler
RouteMatches(v, r) ==
    IF v = "http_receiver"
    THEN \E rt \in RegisteredRoutes : rt.method = r.method /\ LiteralKeyMatches(rt.pattern, r.path)
    ELSE \E rt \in RegisteredRoutes : PatternMatches(rt.pattern, r.path)

\* the response for a request no route matches
UnmatchedResponse(v) ==
    IF v = "server_http_server" THEN internal_server_error ELSE not_found

VARIABLES
    variant,      \* which generation of the server runs
    tls,          \* TRUE iff .tls(cert, key) was called before receive()
    subscribed,   \* HttpReceiver: TRUE iff on_event(handler) was called
    signalled,    \* SIGTERM / SIGINT has been delivered to the process
    loopPc,       \* receive(): "select", "publish", "drain", "returned", "panicked"
    listener,     \* the TcpListener: "open" or "closed"
    nextId,       \* next connection to be accepted
    joinSet,      \* join_set_main / receiver_join_set: tasks spawned and not yet joined
    sess,         \* per connection: the session task
    chan,         \* HttpReceiver: events queued in the mpsc channel
    chanOpen,     \* HttpReceiver: the channel's Receiver has not been dropped
    consumer,     \* HttpReceiver: the on_event task: "none", "idle", "handling", "exited"
    owed,         \* history: sessions whose handler was running when the signal arrived
                  \* and that have not yet written their response
    uuidOf,       \* HttpReceiver: per connection, the uuid minted at accept (0: none)
    carried,      \* history: per connection, the ids that its events and its handler
                  \* invocation were given
    published,    \* history: per connection, the kinds of the events HttpReceiver has
                  \* sent for it, oldest first
    h2Detached,   \* connections whose task has ended while a handler invocation of
                  \* one of their H2 streams still runs in the task execute() spawned
    ehQueue,      \* EventHandler: events in the unbounded channel, oldest first
    ehLoop,       \* EventHandler: the task spawned by init: "not_init", "spawned",
                  \* "waiting", "handling", "done"
    ehNotified,   \* EventHandler: the Notified future of the current select! was woken
    ehSent,       \* EventHandler: number of events sent so far
    ehHandled,    \* EventHandler: events passed to the handler, in call order
    ehShutdown,   \* EventHandler: shutdown(): "no", "joining", "returned"
    ehShutAt,     \* history: the number of events sent before shutdown(), -1 before shutdown
    ehSubAt,      \* history: the number of events sent before init(handler), -1 before init
    ehInitPanic,  \* EventHandler: a call of init has panicked
    wire,         \* classifier: the bytes in the socket's receive buffer, in order
    peeked,       \* classifier: what stream.peek returned: res "none", "ok" or "err",
                  \* and the bytes copied into the peek buffer
    rpos,         \* classifier: the read position of the stream (bytes consumed)
    cls,          \* classifier: result of is_connection_tls: "none", "ok", "err_nontls",
                  \* "err_short", "err_io"
    taken,        \* classifier: the bytes the reader that runs next has read
    routes,       \* router: the patterns given to route(), in registration order
    rtPc,         \* router: "building", "serving", "panicked"
    rtOut,        \* router: what the last incoming_request did with its request
    rtMap,        \* router: the route table, (pattern, handler) pairs; a handler is
                  \* named by the number of the route() call that brought it
    respHeaders,  \* HttpResponse under construction: headers, (key, value) pairs
    respBody,     \* HttpResponse under construction: length of body in bytes
    respCalls,    \* builder calls made on the response so far
    respPc,       \* "idle", "building", "written"
    respOut,      \* what to_bytes put on the stream: header lines and body length
    reqWire,      \* HttpRequest::from_stream: header lines not yet read, in order
    reqAvail,     \* HttpRequest::from_stream: bytes the peer sends after the blank line
    reqLog,       \* history: the headers set or received so far, in order
    reqHeaders,   \* HttpRequest: headers, (key, value) pairs
    reqBody,      \* HttpRequest: length of body in bytes
    reqPc,        \* "idle", "building", "reading", "done", "err"
    clock,        \* scheduler: OffsetDateTime::now_utc(), in seconds
    start,        \* scheduler, history: the start configured with start_date / start_time
    interval,     \* scheduler: self.interval
    next_run,     \* scheduler: self.next_run
    now,          \* scheduler: `now` of receive / calculate_next_run
    calculated_next_run,  \* scheduler: the local of calculate_next_run
    schedPc,      \* scheduler: "idle", "configured", "calculating", "scheduled", "panicked"
    schedGen,     \* scheduler: which of the two ScheduleReceiver sources runs
    instant,      \* scheduler: the next_run the current turn of the trigger loop waits for
    trigAt,       \* history: per trigger, the instant it was scheduled for and the clock
    status,       \* HttpStatus: the variant s.code() is called on, "" if none
    status_code,  \* HttpStatus: the u16 given to from_code
    status_result, \* HttpStatus: what from_code returned
    statusPc,     \* HttpStatus: "idle", "variant", "code", "done"
    fPc,          \* FileReceiver: position of poll_directory
    fOrder,       \* FileReceiver: the order in which filter_map.iter() yields the filters
    fFiles,       \* FileReceiver: the files the latest directory listing returned
    fWork,        \* FileReceiver: the (filter, file name) pairs the scan has still to visit
    fCur,         \* FileReceiver: the file name the scan visited last
    fLast,        \* FileReceiver: what the scan did with it ("none", "skipped", "listed")
    ignore_list,  \* FileReceiver: the Vec behind the ignore_list mutex
    callbacks,    \* FileReceiver: per file name, the tasks of join_set inside callback(..).await
    finishing,    \* FileReceiver: per file name, the tasks whose callback returned and that have not yet removed the name
    polls,        \* FileReceiver: the number of directory listings
    wMsg,         \* round trip: the message that was built
    wBytes,       \* round trip: what to_bytes wrote
    wResult,      \* round trip: what from_stream returned
    wPc           \* round trip: "idle", "built", "written", "read"

vars == << variant, tls, subscribed, signalled, loopPc, listener, nextId,
           joinSet, sess, chan, chanOpen, consumer, owed, uuidOf, carried, h2Detached, published,
           ehQueue, ehLoop, ehNotified, ehSent, ehHandled, ehShutdown,
           ehSubAt, ehInitPanic, ehShutAt,
           wire, peeked, rpos, cls, taken, routes, rtPc, rtOut, rtMap,
           respHeaders, respBody, respCalls, respPc, respOut,
           reqWire, reqAvail, reqLog, reqHeaders, reqBody, reqPc,
           clock, start, interval, next_run, now, calculated_next_run, schedPc,
           schedGen, instant, trigAt,
           status, status_code, status_result, statusPc,
           fPc, fOrder, fFiles, fWork, fCur, fLast, ignore_list, callbacks, finishing, polls,
           wMsg, wBytes, wResult, wPc >>

serverVars == << variant, tls, subscribed, signalled, loopPc, listener, nextId,
                 joinSet, sess, chan, chanOpen, consumer, owed, uuidOf, carried, h2Detached, published >>
ehVars == << ehQueue, ehLoop, ehNotified, ehSent, ehHandled, ehShutdown,
            ehSubAt, ehInitPanic, ehShutAt >>
clsVars == << wire, peeked, rpos, cls, taken >>
routerVars == << routes, rtPc, rtOut, rtMap >>
respVars == << respHeaders, respBody, respCalls, respPc, respOut >>
reqVars == << reqWire, reqAvail, reqLog, reqHeaders, reqBody, reqPc >>
\* the message types and helpers of the crate that run outside a server
schedVars == << clock, start, interval, next_run, now, calculated_next_run, schedPc,
               schedGen, instant, trigAt >>
statusVars == << status, status_code, status_result, statusPc >>
fileVars == << fPc, fOrder, fFiles, fWork, fCur, fLast, ignore_list, callbacks, finishing, polls >>
wireVars == << wMsg, wBytes, wResult, wPc >>
libVars == << respVars, reqVars, schedVars, statusVars, fileVars, wireVars >>
\* what an action of the server leaves alone, and what an action of the
\* EventHandler leaves alone
nonServerVars == << ehVars, clsVars, routerVars, libVars >>
nonEhVars == << serverVars, clsVars, routerVars, libVars >>
\* what the classifier and what the router leave alone
nonClsVars == << serverVars, ehVars, routerVars, libVars >>
nonRouterVars == << serverVars, ehVars, clsVars, libVars >>
\* what building a response and what building or reading a request leave alone
nonRespVars == << serverVars, ehVars, clsVars, routerVars, reqVars, schedVars, statusVars, fileVars, wireVars >>
nonReqVars == << serverVars, ehVars, clsVars, routerVars, respVars, schedVars, statusVars, fileVars, wireVars >>
\* what the scheduler and what HttpStatus leave alone
nonSchedVars == << serverVars, ehVars, clsVars, routerVars, respVars, reqVars, statusVars, fileVars, wireVars >>
nonStatusVars == << serverVars, ehVars, clsVars, routerVars, respVars, reqVars, schedVars, fileVars, wireVars >>
\* what the FileReceiver leaves alone
nonFileVars == << serverVars, ehVars, clsVars, routerVars, respVars, reqVars, schedVars, statusVars, wireVars >>
\* what to_bytes and from_stream leave alone
nonWireVars == << serverVars, ehVars, clsVars, routerVars, respVars, reqVars, schedVars, statusVars, fileVars >>

\* a session: its position, the protocol served, the request handed to the
\* handler, how the request was classified, the response to be written, the
\* result of the write ("none", "ok", "fail") and how the task ended
\* ("none", "done", "panicked", "handler_panic", "aborted", "dropped")
NoSession == [st |-> "none", proto |-> "none", req |-> NoReq, kind |-> "none",
              resp |-> NoResp, sent |-> "none", outcome |-> "none"]

\* a task that has ended holds nothing any more
Ended(how) == [NoSession EXCEPT !.st = "closed", !.outcome = how]

IsReceiver == variant = "http_receiver"

\* the server and the EventHandler after construction
InitService ==
    /\ variant \in Variants
    /\ tls \in BOOLEAN
    /\ subscribed \in (IF variant = "http_receiver" THEN BOOLEAN ELSE {FALSE})
    /\ signalled = FALSE
    /\ loopPc = "select"
    /\ listener = "open"
    /\ nextId = 1
    /\ joinSet = {}
    /\ sess = [c \in Conns |-> NoSession]
    /\ chan = 0
    /\ chanOpen = TRUE
    /\ consumer = IF subscribed THEN "idle" ELSE "none"
    /\ owed = {}
    /\ uuidOf = [c \in Conns |-> 0]
    /\ carried = [c \in Conns |-> {}]
    /\ h2Detached = {}
    /\ published = [c \in Conns |-> <<>>]
    /\ ehQueue = <<>>
    /\ ehLoop = "not_init"
    /\ ehNotified = FALSE
    /\ ehSent = 0
    /\ ehHandled = <<>>
    /\ ehShutdown = "no"
    /\ ehSubAt = -1
    /\ ehShutAt = -1
    /\ ehInitPanic = FALSE

\* the peek buffer before stream.peek has run
NoPeek == [res |-> "none", bytes |-> <<>>]

\* no stream is being classified
NoClassification ==
    /\ wire = <<>>
    /\ peeked = NoPeek
    /\ rpos = 0
    /\ cls = "none"
    /\ taken = <<>>

\* res is "none" before any request, then "handler" or "unmatched"; cb holds
\* the pattern whose callback was invoked, params what the request carried
NoRouteOut == [res |-> "none", path |-> <<>>, cb |-> {}, params |-> {}]

\* the router under construction is not looked at
NoRouter ==
    /\ routes = <<>>
    /\ rtPc = "building"
    /\ rtOut = NoRouteOut
    /\ rtMap = {}

\* HttpResponse::new(): no headers, empty body; nothing written
NoOut == [lines |-> {}, body |-> 0]
NoResponse ==
    /\ respHeaders = {}
    /\ respBody = 0
    /\ respCalls = 0
    /\ respPc = "idle"
    /\ respOut = NoOut

\* HttpRequest::new(): no headers, empty body; nothing to read
NoRequest ==
    /\ reqWire = <<>>
    /\ reqAvail = 0
    /\ reqLog = <<>>
    /\ reqHeaders = {}
    /\ reqBody = 0
    /\ reqPc = "idle"

\* SchedulerInterval::None, the interval of ScheduleReceiver::new()
None == [unit |-> "None", n |-> 0]

\* no scheduler has been created
NoScheduler ==
    /\ clock = 0
    /\ start = 0
    /\ interval = None
    /\ next_run = 0
    /\ now = 0
    /\ calculated_next_run = 0
    /\ schedPc = "idle"
    /\ schedGen = "scheduler"
    /\ instant = 0
    /\ trigAt = <<>>

\* the result of from_code before it is called
NoResult == [ok |-> FALSE, status |-> ""]

\* no HttpStatus is converted
NoStatus ==
    /\ status = ""
    /\ status_code = 0
    /\ status_result = NoResult
    /\ statusPc = "idle"

\* no FileReceiver polls a directory
NoFilePoll ==
    /\ fPc = "idle"
    /\ fOrder = <<>>
    /\ fFiles = <<>>
    /\ fWork = <<>>
    /\ fCur = ""
    /\ fLast = "none"
    /\ ignore_list = <<>>
    /\ callbacks = [n \in {"a.txt", "b.csv"} |-> 0]
    /\ finishing = [n \in {"a.txt", "b.csv"} |-> 0]
    /\ polls = 0

\* no message goes through to_bytes and from_stream
NoMsg == [kind |-> "none"]
NoBytes == [first |-> <<>>, lines |-> {}, body |-> <<>>]
NoWire ==
    /\ wMsg = NoMsg
    /\ wBytes = NoBytes
    /\ wResult = [outcome |-> "none", msg |-> NoMsg]
    /\ wPc = "idle"

\* no message is built or parsed outside the server, nothing is scheduled,
\* no status is converted
NoLibrary ==
    /\ NoResponse
    /\ NoRequest
    /\ NoScheduler
    /\ NoStatus
    /\ NoFilePoll
    /\ NoWire

Init ==
    /\ InitService
    /\ NoClassification
    /\ NoRouter
    /\ NoLibrary

\* --------------------------------------------------------- accept loop
\* first state of a freshly spawned session task
FirstStateSwapped(v, t) ==
    IF v = "http_receiver"
    THEN (IF t THEN "decode" ELSE "classify")
    ELSE (IF t THEN "decode" ELSE "handshake")
FirstState(v, t) ==
    IF v = "http_receiver"
    THEN (IF t THEN "classify" ELSE "decode")
    ELSE (IF t THEN "handshake" ELSE "decode")

\* protocol of a connection that is served without a TLS upgrade
PlainProtoH2 == "h2"
PlainProto == "h1"

\* a panic that unwinds receive() drops the JoinSet, which aborts every task
\* still in it; the stream of a connection accepted but not yet spawned is
\* dropped with the frame
AbortAll ==
    [c \in Conns |->
        IF sess[c].st \notin {"none", "closed"}
        THEN Ended(IF sess[c].st = "accepted" THEN "dropped" ELSE "aborted")
        ELSE sess[c]]

\* self is dropped by the same unwinding: event_join_set aborts the on_event
\* task and the channel goes away
LoopPanic ==
    /\ loopPc' = "panicked"
    /\ sess' = AbortAll
    /\ joinSet' = {}
    /\ listener' = "closed"
    /\ consumer' = IF consumer = "none" THEN "none" ELSE "exited"
    /\ chanOpen' = FALSE

\* the signal reaches the process; every signal() stream of the process sees it
Signal ==
    /\ ~signalled
    /\ signalled' = TRUE
    /\ owed' = {c \in Conns : sess[c].st = "handler"}
    /\ UNCHANGED << variant, tls, subscribed, loopPc, listener, nextId,
                    joinSet, sess, chan, chanOpen, consumer >>
    /\ UNCHANGED << uuidOf, carried, h2Detached, published >>
    /\ UNCHANGED nonServerVars

\* the uuids handed out so far in this run
Minted == { uuidOf[c] : c \in Conns } \ {0}

\* Uuid::new_v4(): a random 122-bit value, taken to differ from every uuid
\* minted before it; the uuids of a run are numbered in the order of minting
new_v4_once(minted) == 1
new_v4(minted) == Cardinality(minted) + 1

\* select! arm `listener.accept()` with an Ok result.  select! polls its arms
\* in random order, so this arm can win while a signal is already pending.
AcceptOk ==
    /\ loopPc = "select"
    /\ listener = "open"
    /\ nextId <= MaxConn
    /\ nextId' = nextId + 1
    /\ IF IsReceiver
       THEN \* uuid minted, then OnConnectionReceived is sent before the spawn
            /\ sess' = [sess EXCEPT ![nextId].st = "accepted"]
            /\ uuidOf' = [uuidOf EXCEPT ![nextId] = new_v4(Minted)]
            /\ loopPc' = "publish"
            /\ UNCHANGED joinSet
       ELSE /\ sess' = [sess EXCEPT ![nextId].st = FirstState(variant, tls),
                                     ![nextId].proto = IF tls THEN "none" ELSE PlainProto]
            /\ joinSet' = joinSet \cup {nextId}
            /\ UNCHANGED << loopPc, uuidOf >>
    /\ UNCHANGED << variant, tls, subscribed, signalled, listener,
                    chan, chanOpen, consumer, owed, carried, h2Detached, published >>
    /\ UNCHANGED nonServerVars

\* what the loop does with Err from accept(): HttpServer logs and continues,
\* HttpReceiver calls result.unwrap()
AcceptErrorPanics(v) == v = "http_receiver"

AcceptErr ==
    /\ loopPc = "select"
    /\ listener = "open"
    /\ IF AcceptErrorPanics(variant)
       THEN LoopPanic
       ELSE UNCHANGED << loopPc, sess, joinSet, listener, consumer, chanOpen >>
    /\ UNCHANGED << variant, tls, subscribed, signalled, nextId, chan, owed >>
    /\ UNCHANGED << uuidOf, carried, h2Detached, published >>
    /\ UNCHANGED nonServerVars

\* HttpReceiver line 139: event_broadcast.send(OnConnectionReceived).await.unwrap()
\* then join_set_main.spawn.  send waits while the channel is full and returns
\* Err once the Receiver is gone.
LoopPublish ==
    /\ loopPc = "publish"
    /\ \E c \in Conns :
        /\ sess[c].st = "accepted"
        /\ IF chanOpen
           THEN /\ chan < EventChannelCapacity
                /\ chan' = chan + 1
                /\ sess' = [sess EXCEPT ![c].st = FirstState(variant, tls),
                                        ![c].proto = IF tls THEN "none" ELSE PlainProto]
                /\ joinSet' = joinSet \cup {c}
                /\ loopPc' = "select"
                /\ carried' = [carried EXCEPT ![c] = @ \cup {uuidOf[c]}]
                /\ published' = [published EXCEPT ![c] = Append(@, "OnConnectionReceived")]
                /\ UNCHANGED << listener, consumer, chanOpen >>
           ELSE /\ LoopPanic
                /\ UNCHANGED << chan, carried, published >>
    /\ UNCHANGED << variant, tls, subscribed, signalled, nextId, owed, uuidOf, h2Detached >>
    /\ UNCHANGED nonServerVars

\* does the signal arm of the loop close the listener before the drain:
\* HttpServer has drop(listener); break, HttpReceiver has only break
SignalArmDropsListener(v) == v # "http_receiver"

\* select! arm `sigterm.recv()` / `sigint.recv()`
ObserveSignal ==
    /\ loopPc = "select"
    /\ signalled
    /\ loopPc' = "drain"
    /\ listener' = IF SignalArmDropsListener(variant) THEN "closed" ELSE listener
    /\ UNCHANGED << variant, tls, subscribed, signalled, nextId,
                    joinSet, sess, chan, chanOpen, consumer, owed >>
    /\ UNCHANGED << uuidOf, carried, h2Detached, published >>
    /\ UNCHANGED nonServerVars

\* while let Some(_) = join_set.join_next().await {} : one finished task is
\* taken out of the set
JoinNext ==
    /\ loopPc = "drain"
    /\ \E c \in joinSet :
        /\ sess[c].st = "closed"
        /\ joinSet' = joinSet \ {c}
    /\ UNCHANGED << variant, tls, subscribed, signalled, loopPc, listener, nextId,
                    sess, chan, chanOpen, consumer, owed >>
    /\ UNCHANGED << uuidOf, carried, h2Detached, published >>
    /\ UNCHANGED nonServerVars

\* join_next() returned None; HttpReceiver then joins the event task, and
\* receive() returns, dropping the listener and the channel
Return ==
    /\ loopPc = "drain"
    /\ joinSet = {}
    /\ IsReceiver => consumer \in {"none", "exited"}
    /\ loopPc' = "returned"
    /\ listener' = "closed"
    /\ chanOpen' = IF IsReceiver THEN FALSE ELSE chanOpen
    /\ UNCHANGED << variant, tls, subscribed, signalled, nextId,
                    joinSet, sess, chan, consumer, owed >>
    /\ UNCHANGED << uuidOf, carried, h2Detached, published >>
    /\ UNCHANGED nonServerVars

\* ------------------------------------------------- on_event task
\* select! arm of a signal: break; the Receiver is dropped with the task
ConsumerSignal ==
    /\ consumer = "idle"
    /\ signalled
    /\ consumer' = "exited"
    /\ chanOpen' = FALSE
    /\ UNCHANGED << variant, tls, subscribed, signalled, loopPc, listener, nextId,
                    joinSet, sess, chan, owed >>
    /\ UNCHANGED << uuidOf, carried, h2Detached, published >>
    /\ UNCHANGED nonServerVars

\* select! arm receiver.recv() => Some(event): handler(event).await starts
ConsumerRecv ==
    /\ consumer = "idle"
    /\ chan > 0
    /\ chan' = chan - 1
    /\ consumer' = "handling"
    /\ UNCHANGED << variant, tls, subscribed, signalled, loopPc, listener, nextId,
                    joinSet, sess, chanOpen, owed >>
    /\ UNCHANGED << uuidOf, carried, h2Detached, published >>
    /\ UNCHANGED nonServerVars

\* handler(event).await completes, after however long the subscriber takes
ConsumerDone ==
    /\ consumer = "handling"
    /\ consumer' = "idle"
    /\ UNCHANGED << variant, tls, subscribed, signalled, loopPc, listener, nextId,
                    joinSet, sess, chan, chanOpen, owed >>
    /\ UNCHANGED << uuidOf, carried, h2Detached, published >>
    /\ UNCHANGED nonServerVars

\* ------------------------------------------------------- session task
\* what a session leaves unchanged
SessionFrame ==
    /\ UNCHANGED << variant, tls, subscribed, signalled, loopPc, listener, nextId,
                    joinSet, chanOpen, consumer, uuidOf, h2Detached >>
    /\ UNCHANGED nonServerVars

\* the tasks a panic inside session task c takes down: the task is spawned on
\* its own (join_set_main.spawn), so the panic ends that task only
PanicScopeAll(c) == Conns
PanicScope(c) == {c}

\* session task c panics; how is "handler_panic" when the panic comes out of
\* the route callback and "panicked" otherwise
TaskPanic(c, how) ==
    sess' = [d \in Conns |->
                IF d = c THEN Ended(how)
                ELSE IF d \in PanicScope(c) /\ sess[d].st \notin {"none", "accepted", "closed"}
                THEN Ended("aborted")
                ELSE sess[d]]

\* HttpReceiver: the error path shared by classification, handshake and
\* decode failures: publish OnRequestError, write the 500, publish the result
RequestErrorFallsThrough(c, k) ==
    sess' = [sess EXCEPT ![c].st = "decode", ![c].kind = k]
RequestError(c, k) ==
    sess' = [sess EXCEPT ![c].st = "pub_req", ![c].kind = k]

\* HttpReceiver::is_connection_tls on a TLS receiver
SessClassify(c) ==
    /\ sess[c].st = "classify"
    /\ \E good \in BOOLEAN :
        IF good
        THEN sess' = [sess EXCEPT ![c].st = "handshake"]
        ELSE RequestError(c, "classify_err")
    /\ UNCHANGED << chan, owed, carried, published >>
    /\ SessionFrame

\* tls_config.alpn_protocols: HttpServer::tls and HttpServerConfig::tls set
\* [h2, http/1.1]; HttpReceiver::create_tls_config sets none
ServerAlpnHttp1First(v) == IF v = "http_receiver" THEN <<>> ELSE <<"http/1.1", "h2">>
ServerAlpn(v) == IF v = "http_receiver" THEN <<>> ELSE <<"h2", "http/1.1">>

\* what a TLS client puts in the ALPN extension of its ClientHello
ClientOffers == { {}, {"h2"}, {"http/1.1"}, {"h2", "http/1.1"}, {"spdy/3"} }

\* rustls picks the first protocol of the server's list that the client offers
RECURSIVE FirstOffered(_, _)
FirstOffered(list, offer) ==
    IF list = <<>> THEN "none"
    ELSE IF Head(list) \in offer THEN Head(list)
    ELSE FirstOffered(Tail(list), offer)

\* alpn_protocol() after the handshake
Negotiated(v, offer) == FirstOffered(ServerAlpn(v), offer)

AlpnTokens == {"h2", "http/1.1", "none"}

\* the protocol served after a TLS handshake that negotiated ALPN token a:
\* HttpServer serves h2 for Some(b"h2") and http1 otherwise; HttpReceiver has
\* one decoder only
ProtocolForAnyToken(v, a) == IF v # "http_receiver" /\ a # "none" THEN "h2" ELSE "h1"
ProtocolFor(v, a) == IF v # "http_receiver" /\ a = "h2" THEN "h2" ELSE "h1"

\* acceptor.accept(stream).await returns Ok for a client that offered `offer`
SessHandshakeOk(c, offer) ==
    /\ sess[c].st = "handshake"
    /\ sess' = [sess EXCEPT ![c].st = "decode",
                            ![c].proto = ProtocolFor(variant, Negotiated(variant, offer))]
    /\ UNCHANGED << chan, owed, carried, published >>
    /\ SessionFrame

\* acceptor.accept(stream).await returns Err: a client that is not speaking
\* TLS, a broken handshake, or no protocol in common
SessHandshakeErr(c) ==
    /\ sess[c].st = "handshake"
    /\ IF IsReceiver
       THEN RequestError(c, "handshake_err")
       ELSE \* tls_connection: log and return, nothing is written
            sess' = [sess EXCEPT ![c] = Ended("done")]
    /\ UNCHANGED << chan, owed, carried, published >>
    /\ SessionFrame

\* acceptor.accept(stream).await
SessHandshake(c) ==
    \/ \E offer \in ClientOffers : SessHandshakeOk(c, offer)
    \/ SessHandshakeErr(c)

\* the outcomes of reading one request: HttpRequest::from_stream returns Ok or
\* Err, or panics on first_line[0] when the request line has no token;
\* build_http_request returns Ok or Err
DecodeResults(v) == IF v = "http_receiver" THEN {"ok", "err", "panic"} ELSE {"ok", "err"}

\* does the service of a connection that speaks proto route request r to a
\* handler: tcp_connection and tls_connection build the same
\* service_fn(incoming_request) and hand it to the http1 or to the http2
\* builder, so the protocol does not enter the routing
ServiceRoutesH1Only(v, proto, r) == proto # "h2" /\ RouteMatches(v, r)
ServiceRoutes(v, proto, r) == RouteMatches(v, r)

\* a request arrives on the connection and is decoded, with result res, and
\* routed
SessDecodeAs(c, res) ==
    /\ sess[c].st = "decode"
    /\ CASE res = "panic" -> TaskPanic(c, "panicked")
          [] res = "err" ->
                IF IsReceiver
                THEN RequestError(c, "decode_err")
                ELSE sess' = [sess EXCEPT ![c].st = "write", ![c].kind = "decode_err",
                                          ![c].sent = "none",
                                          ![c].resp = internal_server_error]
          [] res = "ok" ->
                \E r \in Requests :
                    LET k == IF ServiceRoutes(variant, sess[c].proto, r)
                             THEN "matched" ELSE "nomatch"
                        given == IF k = "matched" \/ ~IsReceiver THEN r ELSE NoReq
                    IN  IF IsReceiver
                        THEN sess' = [sess EXCEPT ![c].st = "pub_req", ![c].req = given, ![c].kind = k]
                        ELSE IF k = "matched"
                        THEN sess' = [sess EXCEPT ![c].st = "handler", ![c].req = given,
                                                  ![c].kind = k, ![c].sent = "none"]
                        ELSE sess' = [sess EXCEPT ![c].st = "write", ![c].req = given,
                                                  ![c].kind = k, ![c].sent = "none",
                                                  ![c].resp = UnmatchedResponse(variant)]
    /\ UNCHANGED << chan, owed, carried, published >>
    /\ SessionFrame

SessDecode(c) == \E res \in DecodeResults(variant) : SessDecodeAs(c, res)

\* the event a session of HttpReceiver is about to send
PendingEvent(s) ==
    CASE s.st = "pub_req" ->
            IF s.kind \in {"matched", "nomatch"} THEN "OnRequestSuccess" ELSE "OnRequestError"
      [] s.st = "pub_resp" ->
            IF s.sent = "ok" THEN "OnResponseSuccess" ELSE "OnResponseError"
      [] OTHER -> "none"

\* HttpReceiver: event_broadcast.send(event).await.unwrap() inside the session;
\* the event, and the callback called after OnRequestSuccess on a matched
\* route, are given uuid.clone()
SessPublish(c) ==
    /\ sess[c].st \in {"pub_req", "pub_resp"}
    /\ IF chanOpen
       THEN /\ chan < EventChannelCapacity
            /\ chan' = chan + 1
            /\ carried' = [carried EXCEPT ![c] = @ \cup {uuidOf[c]}]
            /\ published' = [published EXCEPT ![c] = Append(@, PendingEvent(sess[c]))]
            /\ IF sess[c].st = "pub_resp"
               THEN sess' = [sess EXCEPT ![c] = Ended("done")]
               ELSE IF sess[c].kind = "matched"
               THEN sess' = [sess EXCEPT ![c].st = "handler"]
               ELSE sess' = [sess EXCEPT ![c].st = "write",
                                ![c].resp = IF sess[c].kind = "nomatch"
                                            THEN UnmatchedResponse(variant)
                                            ELSE internal_server_error]
       ELSE \* SendError: unwrap panics the session task
            /\ TaskPanic(c, "panicked")
            /\ UNCHANGED << chan, carried, published >>
    /\ UNCHANGED owed
    /\ SessionFrame

\* the matched handler returns its response
SessHandlerReturn(c) ==
    /\ sess[c].st = "handler"
    /\ sess' = [sess EXCEPT ![c].st = "write", ![c].resp = HandlerResponse(sess[c].req),
                            ![c].req = NoReq]
    /\ UNCHANGED << chan, owed, carried, published >>
    /\ SessionFrame

\* is the handler future awaited inside catch_unwind
HasFaultBarrier(v) == v # "http_receiver"

\* the matched handler panics
SessHandlerPanic(c) ==
    /\ sess[c].st = "handler"
    /\ IF HasFaultBarrier(variant)
       THEN sess' = [sess EXCEPT ![c].st = "write", ![c].kind = "panic", ![c].req = NoReq,
                                 ![c].resp = internal_server_error]
       ELSE TaskPanic(c, "handler_panic")
    /\ UNCHANGED << chan, owed, carried, published >>
    /\ SessionFrame

\* does the connection stay open for a further request after a response:
\* HttpReceiver serves one request per task; tcp_connection uses the http1
\* builder's default keep-alive; tls_connection sets keep_alive(false) for
\* http1 and serves http2 streams until the peer closes
KeepsAliveDefault(v, t, proto) == v # "http_receiver"
KeepsAlive(v, t, proto) ==
    /\ v # "http_receiver"
    /\ (proto = "h2" \/ ~t)

\* the response is written to the stream; the write succeeds or fails
SessWrite(c) ==
    /\ sess[c].st = "write"
    /\ \E good \in BOOLEAN :
        IF IsReceiver
        THEN sess' = [sess EXCEPT ![c].st = "pub_resp", ![c].kind = "none", ![c].resp = NoResp,
                                  ![c].sent = IF good THEN "ok" ELSE "fail"]
        ELSE IF good /\ KeepsAlive(variant, tls, sess[c].proto) /\ sess[c].kind # "decode_err"
        THEN sess' = [sess EXCEPT ![c].st = "decode", ![c].kind = "none", ![c].resp = NoResp,
                                  ![c].req = NoReq, ![c].sent = "ok"]
        ELSE sess' = [sess EXCEPT ![c] = Ended("done")]
    /\ owed' = owed \ {c}
    /\ UNCHANGED << chan, carried, published >>
    /\ SessionFrame

\* the peer closes a connection that waits for its next request:
\* serve_connection returns
ClientClose(c) ==
    /\ ~IsReceiver
    /\ sess[c].st = "decode"
    /\ sess' = [sess EXCEPT ![c] = Ended("done")]
    /\ UNCHANGED << chan, owed, carried, published >>
    /\ SessionFrame

\* HttpExecutor::execute / Executor::execute: tokio::task::spawn(fut).  The
\* http2 builder runs the work of every stream (the service call and the
\* sending of its response) through the executor, so the handler invocation
\* of an H2 request is polled by a task of the runtime, which is no member of
\* receiver_join_set; the http1 builder polls it inside serve_connection
ExecutedInJoinSet(proto) == proto # "h2"

\* the peer closes the connection of an H2 session while a handler invocation
\* runs: serve_connection returns and the connection task ends; the stream's
\* task was spawned on its own and keeps running the handler
H2PeerClose(c) ==
    /\ ~IsReceiver
    /\ sess[c].st = "handler"
    /\ ~ExecutedInJoinSet(sess[c].proto)
    /\ sess' = [sess EXCEPT ![c] = Ended("done")]
    /\ h2Detached' = h2Detached \cup {c}
    /\ owed' = owed \ {c}
    /\ UNCHANGED << variant, tls, subscribed, signalled, loopPc, listener, nextId,
                    joinSet, chan, chanOpen, consumer, uuidOf, carried, published >>
    /\ UNCHANGED nonServerVars

\* the handler invocation of a stream whose connection is gone returns (or
\* panics inside catch_unwind); its response has nowhere to go
H2StreamEnd(c) ==
    /\ c \in h2Detached
    /\ h2Detached' = h2Detached \ {c}
    /\ UNCHANGED << variant, tls, subscribed, signalled, loopPc, listener, nextId,
                    joinSet, sess, chan, chanOpen, consumer, owed, uuidOf, carried, published >>
    /\ UNCHANGED nonServerVars

\* ------------------------------------------------- EventHandler
\* EventHandler::init: takes the receiver and spawns the loop task
EHInit ==
    /\ ehLoop = "not_init"
    /\ ehLoop' = "spawned"
    /\ ehSubAt' = ehSent
    /\ UNCHANGED << ehQueue, ehNotified, ehSent, ehHandled, ehShutdown, ehInitPanic, ehShutAt >>
    /\ UNCHANGED nonEhVars

\* EventHandler::init called again to add a handler: the receiver is gone and
\* self.receiver.take().expect("Event receiver already taken") panics
\* (HttpReceiver::on_event does the same with self.event_receiver.unwrap())
EHInitAgain ==
    /\ ehLoop # "not_init"
    /\ ~ehInitPanic
    /\ ehInitPanic' = TRUE
    /\ UNCHANGED << ehQueue, ehLoop, ehNotified, ehSent, ehHandled, ehShutdown, ehSubAt, ehShutAt >>
    /\ UNCHANGED nonEhVars

\* the loop task is polled for the first time: select! creates
\* shutdown.notified() and receiver.recv()
EHSelect ==
    /\ ehLoop = "spawned"
    /\ ehLoop' = "waiting"
    /\ ehNotified' = FALSE
    /\ UNCHANGED << ehQueue, ehSent, ehHandled, ehShutdown >>
    /\ UNCHANGED << ehSubAt, ehInitPanic, ehShutAt >>
    /\ UNCHANGED nonEhVars

\* a producer sends through a clone of broadcast(): an unbounded channel takes
\* the event at once; after the receiver is gone the send returns Err
EHSend ==
    /\ ehSent < MaxEvents
    /\ ehSent' = ehSent + 1
    /\ ehQueue' = IF ehLoop = "done" THEN ehQueue ELSE Append(ehQueue, ehSent + 1)
    /\ UNCHANGED << ehLoop, ehNotified, ehHandled, ehShutdown >>
    /\ UNCHANGED << ehSubAt, ehInitPanic, ehShutAt >>
    /\ UNCHANGED nonEhVars

\* select! arm receiver.recv() => Some(event): handler(event) is called
EHRecv ==
    /\ ehLoop = "waiting"
    /\ ehQueue # <<>>
    /\ ehHandled' = Append(ehHandled, Head(ehQueue))
    /\ ehQueue' = Tail(ehQueue)
    /\ ehLoop' = "handling"
    /\ ehNotified' = FALSE
    /\ UNCHANGED << ehSent, ehShutdown >>
    /\ UNCHANGED << ehSubAt, ehInitPanic, ehShutAt >>
    /\ UNCHANGED nonEhVars

\* handler(event).await completes and the loop starts its next select!
EHHandlerDone ==
    /\ ehLoop = "handling"
    /\ ehLoop' = "waiting"
    /\ ehNotified' = FALSE
    /\ UNCHANGED << ehQueue, ehSent, ehHandled, ehShutdown >>
    /\ UNCHANGED << ehSubAt, ehInitPanic, ehShutAt >>
    /\ UNCHANGED nonEhVars

\* EventHandler::shutdown: notify_waiters() wakes the Notified futures that
\* exist at this moment and stores no permit; then the join loop starts
EHShutdown ==
    /\ ehShutdown = "no"
    /\ ehShutdown' = "joining"
    /\ ehNotified' = (ehLoop = "waiting")
    /\ UNCHANGED << ehQueue, ehLoop, ehSent, ehHandled >>
    /\ ehShutAt' = ehSent
    /\ UNCHANGED << ehSubAt, ehInitPanic >>
    /\ UNCHANGED nonEhVars

\* select! arm shutdown.notified() => break: the task ends and drops the receiver
EHBreak ==
    /\ ehLoop = "waiting"
    /\ ehNotified
    /\ ehLoop' = "done"
    /\ ehQueue' = <<>>
    /\ UNCHANGED << ehNotified, ehSent, ehHandled, ehShutdown >>
    /\ UNCHANGED << ehSubAt, ehInitPanic, ehShutAt >>
    /\ UNCHANGED nonEhVars

\* join_next() returns None: shutdown() returns
EHShutdownReturn ==
    /\ ehShutdown = "joining"
    /\ ehLoop \in {"not_init", "done"}
    /\ ehShutdown' = "returned"
    /\ UNCHANGED << ehQueue, ehLoop, ehNotified, ehSent, ehHandled >>
    /\ UNCHANGED << ehSubAt, ehInitPanic, ehShutAt >>
    /\ UNCHANGED nonEhVars

InitEH ==
    /\ Init
    /\ variant = "http_receiver"
    /\ ~tls
    /\ ~subscribed

NextEH ==
    \/ EHInit
    \/ EHInitAgain
    \/ EHSelect
    \/ EHSend
    \/ EHRecv
    \/ EHHandlerDone
    \/ EHShutdown
    \/ EHBreak
    \/ EHShutdownReturn

SpecEH == InitEH /\ [][NextEH]_vars

\* the runtime polls a spawned task that can make progress, a handler call
\* completes, and shutdown() is resumed when the join set has run empty; no
\* assumption is made on the callers of init, shutdown and send
FairEH ==
    /\ WF_vars(EHSelect)
    /\ WF_vars(EHRecv)
    /\ WF_vars(EHHandlerDone)
    /\ WF_vars(EHBreak)
    /\ WF_vars(EHShutdownReturn)

SpecEHFair == SpecEH /\ FairEH

\* ------------------------------------------------- transport classifier
\* HttpReceiver::is_connection_tls, run on one freshly accepted stream of a
\* TLS receiver
MaxWire == 4           \* bytes in the receive buffer when the stream is peeked

\* let mut peek_buffer = [0u8; 8]
PeekBufferLen == 8

\* byte values around the TLS record signature 0x16 0x03 0x01..0x03, and 'G',
\* the first byte of a plaintext GET
WireBytes == {0, 1, 2, 3, 4, 22, 71}
Wires == UNION { [1..n -> WireBytes] : n \in 0..MaxWire }

Min(a, b) == IF a <= b THEN a ELSE b

\* TcpStream::peek(&mut buf): Ok with a copy of the bytes at the read position,
\* as many as are there and fit the buffer, or Err
PeekOutcomes(w, pos) ==
    { [res |-> "ok", bytes |-> SubSeq(w, pos + 1, Min(Len(w), pos + PeekBufferLen))],
      [res |-> "err", bytes |-> <<>>] }

\* how far a peek of n bytes moves the read position: peek leaves the data in
\* the receive buffer
PeekAdvanceConsumes(n) == n
PeekAdvance(n) == 0

\* peek_buffer[0] == 0x16 && peek_buffer[1] == 0x03 && (0x01..=0x03).contains(&peek_buffer[2])
is_tls_client_sig_loose(b) == b[1] = 22 /\ b[2] = 3
is_tls_client_sig(b) == b[1] = 22 /\ b[2] = 3 /\ b[3] \in 1..3

\* the match on the peek result: Ok(len) if len >= 3, Ok(_), Err(err)
ClassifyPeek(p) ==
    IF p.res = "err" THEN "err_io"
    ELSE IF Len(p.bytes) >= 3
    THEN (IF is_tls_client_sig(p.bytes) THEN "ok" ELSE "err_nontls")
    ELSE "err_short"

\* Self::is_connection_tls(&stream).await
is_connection_tls ==
    /\ cls = "none"
    /\ \E p \in PeekOutcomes(wire, rpos) :
        /\ peeked' = p
        /\ cls' = ClassifyPeek(p)
        /\ rpos' = rpos + PeekAdvance(Len(p.bytes))
    /\ UNCHANGED << wire, taken >>
    /\ UNCHANGED nonClsVars

\* acceptor.accept(&mut stream) runs after Ok(_) and reads the ClientHello
\* from the read position; after Err the task only writes and returns
ClsNextRead ==
    /\ cls = "ok"
    /\ rpos < Len(wire)
    /\ taken' = SubSeq(wire, rpos + 1, Len(wire))
    /\ rpos' = Len(wire)
    /\ UNCHANGED << wire, peeked, cls >>
    /\ UNCHANGED nonClsVars

InitCls ==
    /\ InitService
    /\ variant = "http_receiver"
    /\ tls
    /\ ~subscribed
    /\ NoRouter
    /\ NoLibrary
    /\ wire \in Wires
    /\ peeked = NoPeek
    /\ rpos = 0
    /\ cls = "none"
    /\ taken = <<>>

NextCls ==
    \/ is_connection_tls
    \/ ClsNextRead

SpecCls == InitCls /\ [][NextCls]_vars

\* ---------------------------------------------------------------- router
\* HttpServer::route and the routing part of HttpServer::incoming_request
MaxRoutes == 3         \* calls of route() before receive()

\* "/", "/users/{id}", "/users/me", "/{name}/me", "/users/{name}"
RoutePatterns == { <<>>,
                   <<Lit("users"), Par("id")>>,
                   <<Lit("users"), Lit("me")>>,
                   <<Par("name"), Lit("me")>>,
                   <<Lit("users"), Par("name")>> }

\* "/", "/users/me", "/users/42", "/bob/me", "/missing"
RequestPaths == { <<>>, <<"users", "me">>, <<"users", "42">>, <<"bob", "me">>, <<"missing">> }

\* the patterns registered so far
Registered(rs) == { rs[k] : k \in 1..Len(rs) }

\* the first position at which two patterns differ, 0 if one is a prefix of
\* the other
FirstDiff(p, q) ==
    LET d == { i \in 1..Min(Len(p), Len(q)) : p[i] # q[i] }
    IN  IF d = {} THEN 0 ELSE CHOOSE i \in d : \A j \in d : i <= j

\* matchit Router::insert returns Err for a route that is already there and
\* for one that puts a parameter with another name where a parameter is
InsertConflicts(p, q) ==
    \/ p = q
    \/ LET i == FirstDiff(p, q)
       IN  i # 0 /\ p[i][1] = "par" /\ q[i][1] = "par"

\* matchit Router::at walks the path segment by segment: at each node it
\* follows the static child that equals the segment and, only when nothing
\* below it matches, the parameter child.  cands are the patterns that agree
\* with the path before position i.
RECURSIVE Descend(_, _, _)
Descend(cands, path, i) ==
    IF cands = {} \/ i > Len(path) THEN cands
    ELSE LET lits == { p \in cands : p[i] = Lit(path[i]) }
             pars == { p \in cands : p[i][1] = "par" /\ path[i] # "" }
             viaLit == Descend(lits, path, i + 1)
         IN  IF viaLit # {} THEN viaLit ELSE Descend(pars, path, i + 1)

\* router.at(path): the set holds the matched pattern, or nothing for Err
RouterAtFirstRegistered(rs, path) ==
    LET hits == { k \in 1..Len(rs) : PatternMatches(rs[k], path) }
    IN  IF hits = {} THEN {} ELSE { rs[CHOOSE k \in hits : \A j \in hits : k <= j] }
RouterAt(rs, path) ==
    Descend({ p \in Registered(rs) : Len(p) = Len(path) }, path, 1)

\* matched.params: one (name, value) pair per named parameter of the pattern
Bindings(p, path) ==
    { <<p[i][2], path[i]>> : i \in { j \in 1..Len(p) : p[j][1] = "par" } }

\* request.params as the callback sees it: HttpServer copies matched.params
\* into the request; server::HttpServer builds the request with
\* HttpRequest::from(request) and leaves the copy commented out
ParamsGiven(v, p, path) ==
    IF v = "server_http_server" THEN {} ELSE Bindings(p, path)

\* "/users/{}": a parameter without a name, which matchit refuses to insert
\* (InsertError::InvalidParam)
InvalidPattern == <<Lit("users"), Par("")>>
\* what a caller may pass to route()
RouteTexts == RoutePatterns \cup {InvalidPattern}

\* matchit accepts a pattern whose parameters all have a name
ValidPattern(p) == \A i \in 1..Len(p) : p[i][1] = "par" => p[i][2] # ""

\* HashMap::insert(key, value): the entry of an equal key is replaced
MapInsert(m, k, v) == { e \in m : e[1] # k } \cup {<<k, v>>}

\* HttpServer::route(path, callback): router.insert(..).unwrap()
route ==
    /\ variant # "http_receiver"
    /\ rtPc = "building"
    /\ Len(routes) < MaxRoutes
    /\ \E p \in RouteTexts :
        IF ~ValidPattern(p) \/ \E q \in Registered(routes) : InsertConflicts(p, q)
        THEN rtPc' = "panicked" /\ UNCHANGED << routes, rtMap >>
        ELSE /\ routes' = Append(routes, p)
             /\ rtMap' = rtMap \cup {<<p, Len(routes) + 1>>}
             /\ UNCHANGED rtPc
    /\ UNCHANGED rtOut
    /\ UNCHANGED nonRouterVars

\* HttpReceiver::route(method, route, callback):
\* self.routes.insert(format!("{}|{}", method.to_uppercase(), route), ..);
\* the text of the route is the key, nothing is validated, nothing is returned
HttpReceiver_route ==
    /\ variant = "http_receiver"
    /\ rtPc = "building"
    /\ Len(routes) < MaxRoutes
    /\ \E p \in RouteTexts :
        /\ routes' = Append(routes, p)
        /\ rtMap' = MapInsert(rtMap, p, Len(routes) + 1)
    /\ UNCHANGED << rtPc, rtOut >>
    /\ UNCHANGED nonRouterVars

\* receive(): the router goes behind an Arc and is only read from now on
RouterServe ==
    /\ rtPc = "building"
    /\ rtPc' = "serving"
    /\ UNCHANGED << routes, rtOut, rtMap >>
    /\ UNCHANGED nonRouterVars

\* incoming_request for a request with the given path, up to the call of the
\* callback
incoming_request ==
    /\ rtPc = "serving"
    /\ \E path \in RequestPaths :
        LET matched == RouterAt(routes, path)
        IN  rtOut' = IF matched = {}
                     THEN [res |-> "unmatched", path |-> path, cb |-> {}, params |-> {}]
                     ELSE [res |-> "handler", path |-> path, cb |-> matched,
                           params |-> UNION { ParamsGiven(variant, p, path) : p \in matched }]
    /\ UNCHANGED << routes, rtPc, rtMap >>
    /\ UNCHANGED nonRouterVars

InitRouter ==
    /\ InitService
    /\ variant \in {"http_server", "server_http_server"}
    /\ ~tls
    /\ NoClassification
    /\ NoRouter
    /\ NoLibrary

NextRouter ==
    \/ route
    \/ RouterServe
    \/ incoming_request

SpecRouter == InitRouter /\ [][NextRouter]_vars

\* route registration alone, in every generation of the server
InitRoutes ==
    /\ InitService
    /\ ~tls
    /\ NoClassification
    /\ NoRouter
    /\ NoLibrary

NextRoutes ==
    \/ route
    \/ HttpReceiver_route

SpecRoutes == InitRoutes /\ [][NextRoutes]_vars

\* ------------------------------------------------------ message headers
\* HttpResponse (built by a handler, written by HttpReceiver::receive) and
\* HttpRequest (built by a caller, or read by HttpRequest::from_stream);
\* both keep their headers in a HashMap<String, String>
MaxBody == 2           \* bytes of a message body
MaxHeaders == 2        \* builder calls on one message, header lines of one request

HeaderNames == {"Content-Length", "content-length", "X-Id"}
HeaderValues == {"1", "2", "x"}
HeaderLines == HeaderNames \X HeaderValues

\* usize::to_string for the lengths that occur (one decimal digit)
to_string(n) == <<"0", "1", "2", "3", "4", "5", "6", "7", "8", "9">>[n + 1]
\* content_length.parse().unwrap_or(0)
parse_or_0(v) == IF \E n \in 0..9 : to_string(n) = v
                 THEN CHOOSE n \in 0..9 : to_string(n) = v
                 ELSE 0
\* HashMap::get(key): the value stored under exactly this key
Absent == "absent"
MapGet(m, k) == IF \E e \in m : e[1] = k THEN (CHOOSE e \in m : e[1] = k)[2] ELSE Absent

\* HttpResponse::header(key, value)
HttpResponse_header ==
    /\ respPc = "building"
    /\ respCalls < MaxHeaders
    /\ \E k \in HeaderNames, v \in HeaderValues :
        respHeaders' = MapInsert(respHeaders, k, v)
    /\ respCalls' = respCalls + 1
    /\ UNCHANGED << respBody, respPc, respOut >>
    /\ UNCHANGED nonRespVars

\* HttpResponse::body_bytes(body) and body_string(body)
body_bytes ==
    /\ respPc = "building"
    /\ respCalls < MaxHeaders
    /\ \E n \in 0..MaxBody :
        /\ respBody' = n
        /\ respHeaders' = MapInsert(respHeaders, "Content-Length", to_string(n))
    /\ respCalls' = respCalls + 1
    /\ UNCHANGED << respPc, respOut >>
    /\ UNCHANGED nonRespVars

\* HttpReceiver::receive after the callback returned: Content-Length is
\* inserted for a non-empty body, then to_bytes writes one line per entry of
\* the map and the body
HttpReceiver_respond ==
    /\ respPc = "building"
    /\ LET headers == IF respBody # 0
                       THEN MapInsert(respHeaders, "Content-Length", to_string(respBody))
                       ELSE respHeaders
       IN  /\ respHeaders' = headers
           /\ respOut' = [lines |-> headers, body |-> respBody]
    /\ respPc' = "written"
    /\ UNCHANGED << respBody, respCalls >>
    /\ UNCHANGED nonRespVars

InitResp ==
    /\ InitService
    /\ variant = "http_receiver"
    /\ ~tls
    /\ ~subscribed
    /\ NoClassification
    /\ NoRouter
    /\ NoRequest
    /\ NoScheduler
    /\ NoStatus
    /\ respHeaders = {}
    /\ respBody = 0
    /\ respCalls = 0
    /\ respPc = "building"
    /\ respOut = NoOut
    /\ NoFilePoll
    /\ NoWire

NextResp ==
    \/ HttpResponse_header
    \/ body_bytes
    \/ HttpReceiver_respond

SpecResp == InitResp /\ [][NextResp]_vars

\* HttpRequest::header(key, value)
HttpRequest_header ==
    /\ reqPc = "building"
    /\ Len(reqLog) < MaxHeaders
    /\ \E k \in HeaderNames, v \in HeaderValues :
        /\ reqHeaders' = MapInsert(reqHeaders, k, v)
        /\ reqLog' = Append(reqLog, <<k, v>>)
    /\ UNCHANGED << reqWire, reqAvail, reqBody, reqPc >>
    /\ UNCHANGED nonReqVars

\* HttpRequest::from_stream, one turn of the header loop on a line that is
\* not blank (every line of the model has its colon): read_line fails, or
\* the line is split at the colon and inserted
from_stream_header ==
    /\ reqPc = "reading"
    /\ reqWire # <<>>
    /\ \/ /\ reqPc' = "err"
          /\ UNCHANGED << reqWire, reqLog, reqHeaders >>
       \/ /\ reqHeaders' = MapInsert(reqHeaders, Head(reqWire)[1], Head(reqWire)[2])
          /\ reqLog' = Append(reqLog, Head(reqWire))
          /\ reqWire' = Tail(reqWire)
          /\ UNCHANGED reqPc
    /\ UNCHANGED << reqAvail, reqBody >>
    /\ UNCHANGED nonReqVars

\* HttpRequest::from_stream at the blank line: the body is read only if the
\* map has the key "Content-Length"; read_exact fails when the peer sends
\* fewer bytes
from_stream_body ==
    /\ reqPc = "reading"
    /\ reqWire = <<>>
    /\ LET content_length == MapGet(reqHeaders, "Content-Length")
           length == parse_or_0(content_length)
       IN  IF content_length = Absent
           THEN reqBody' = 0 /\ reqPc' = "done"
           ELSE IF length <= reqAvail
                THEN reqBody' = length /\ reqPc' = "done"
                ELSE reqBody' = 0 /\ reqPc' = "err"
    /\ UNCHANGED << reqWire, reqAvail, reqLog, reqHeaders >>
    /\ UNCHANGED nonReqVars

\* the header lines a peer may send before the blank line
RECURSIVE LinesUpTo(_)
LinesUpTo(n) ==
    IF n = 0 THEN { <<>> }
    ELSE LinesUpTo(n - 1) \cup { Append(w, l) : w \in LinesUpTo(n - 1), l \in HeaderLines }

InitReq ==
    /\ InitService
    /\ variant = "http_receiver"
    /\ ~tls
    /\ ~subscribed
    /\ NoClassification
    /\ NoRouter
    /\ NoResponse
    /\ NoScheduler
    /\ NoStatus
    /\ reqPc \in {"building", "reading"}
    /\ reqWire \in (IF reqPc = "reading" THEN LinesUpTo(MaxHeaders) ELSE { <<>> })
    /\ reqAvail \in (IF reqPc = "reading" THEN 0..MaxBody ELSE {0})
    /\ reqLog = <<>>
    /\ reqHeaders = {}
    /\ reqBody = 0
    /\ NoFilePoll
    /\ NoWire

NextReq ==
    \/ HttpRequest_header
    \/ from_stream_header
    \/ from_stream_body

SpecReq == InitReq /\ [][NextReq]_vars

\* -------------------------------------------------------------- scheduler
\* ScheduleReceiver of scheduler/scheduler.rs (schedule/schedule_receiver.rs
\* has the same receive and calculate_next_run on chrono types).  Times are
\* whole seconds.
MaxTime == 3           \* the clock and the configured start run from 0 to MaxTime
MaxInterval == 2       \* the i64 of an interval runs from -1 to MaxInterval
MaxTriggers == 3       \* triggers of one receive()
\* the dates an OffsetDateTime can hold, scaled down: adding a Duration that
\* leaves -DateRange..DateRange panics
DateRange == 60 * MaxInterval + MaxTime + 10

\* SchedulerInterval: None, Seconds(i64), Minutes(i64) (Hours and Days differ
\* from Minutes by their factor only)
IntervalSettings ==
    {None} \cup { [unit |-> u, n |-> k] : u \in {"Seconds", "Minutes"}, k \in -1..MaxInterval }

\* Duration::seconds(n), Duration::minutes(n)
interval_duration(i) ==
    CASE i.unit = "Seconds" -> i.n
      [] i.unit = "Minutes" -> 60 * i.n
      [] OTHER -> 0

\* the generations of the scheduler: scheduler/scheduler.rs computes the next
\* run before it calls the callback, schedule/schedule_receiver.rs sends
\* OnTrigger first and computes the next run after it
SchedulerGenerations == {"scheduler", "schedule"}

\* time passes: before receive() is called, during a sleep, and between two
\* turns of the trigger loop (the callback takes its time)
SchedTick ==
    /\ schedPc \in {"configured", "sleeping", "top"}
    /\ clock < MaxTime
    /\ clock' = clock + 1
    /\ UNCHANGED << start, interval, next_run, now, calculated_next_run, schedPc >>
    /\ UNCHANGED << schedGen, instant, trigAt >>
    /\ UNCHANGED nonSchedVars

\* receive() up to the spawn: a start in the past goes through
\* calculate_next_run, which returns next_run as it is for the interval None
\* and otherwise enters its while loop
Scheduler_receive ==
    /\ schedPc = "configured"
    /\ now' = clock
    /\ IF next_run < clock /\ interval # None
       THEN /\ calculated_next_run' = next_run
            /\ schedPc' = "calculating"
       ELSE /\ schedPc' = "scheduled"
            /\ UNCHANGED calculated_next_run
    /\ UNCHANGED << clock, start, interval, next_run >>
    /\ UNCHANGED << schedGen, instant, trigAt >>
    /\ UNCHANGED nonSchedVars

\* calculate_next_run called at position pc: one test of
\* `calculated_next_run < now`, then either
\* `calculated_next_run += interval_duration` (which panics outside the range
\* of dates) or the return to position ret
calculate_next_run_at(pc, ret, panicPc) ==
    /\ schedPc = pc
    /\ IF calculated_next_run < now
       THEN LET sum == calculated_next_run + interval_duration(interval)
            IN  IF sum < -DateRange \/ sum > DateRange
                THEN schedPc' = panicPc /\ UNCHANGED << calculated_next_run, next_run >>
                ELSE calculated_next_run' = sum /\ UNCHANGED << schedPc, next_run >>
       ELSE /\ next_run' = calculated_next_run
            /\ schedPc' = ret
            /\ UNCHANGED calculated_next_run
    /\ UNCHANGED << clock, start, interval, now >>
    /\ UNCHANGED << schedGen, instant, trigAt >>
    /\ UNCHANGED nonSchedVars

\* where the trigger loop goes on after its calculate_next_run
AfterCalculation(g) == IF g = "scheduler" THEN "trigger" ELSE "top"

calculate_next_run ==
    \/ calculate_next_run_at("calculating", "scheduled", "panicked")
    \/ calculate_next_run_at("recalculating", AfterCalculation(schedGen), "task_panicked")

\* receiver_join_set.spawn: the trigger task starts
SchedSpawn ==
    /\ schedPc = "scheduled"
    /\ schedPc' = "top"
    /\ UNCHANGED << clock, start, interval, next_run, now, calculated_next_run >>
    /\ UNCHANGED << schedGen, instant, trigAt >>
    /\ UNCHANGED nonSchedVars

\* the top of the trigger loop: read the clock and sleep when next_run is
\* still ahead
SchedLoopTop ==
    /\ schedPc = "top"
    /\ instant' = next_run
    /\ schedPc' = IF next_run > clock THEN "sleeping" ELSE "woken"
    /\ UNCHANGED << clock, start, interval, next_run, now, calculated_next_run >>
    /\ UNCHANGED << schedGen, trigAt >>
    /\ UNCHANGED nonSchedVars

\* sleep(duration).await completes, not before its deadline
SchedWake ==
    /\ schedPc = "sleeping"
    /\ clock >= next_run
    /\ schedPc' = "woken"
    /\ UNCHANGED << clock, start, interval, next_run, now, calculated_next_run >>
    /\ UNCHANGED << schedGen, instant, trigAt >>
    /\ UNCHANGED nonSchedVars

\* calculate_next_run is entered from the trigger loop: `let now = now_utc()`
EnterCalculation ==
    /\ now' = clock
    /\ calculated_next_run' = next_run
    /\ schedPc' = "recalculating"

\* scheduler.rs 84-86: after the sleep, a repeating interval computes the next
\* run before the callback; schedule_receiver.rs goes to the send at once
SchedAfterSleep ==
    /\ schedPc = "woken"
    /\ IF schedGen = "scheduler" /\ interval # None
       THEN EnterCalculation
       ELSE /\ schedPc' = "trigger"
            /\ UNCHANGED << now, calculated_next_run >>
    /\ UNCHANGED << clock, start, interval, next_run >>
    /\ UNCHANGED << schedGen, instant, trigAt >>
    /\ UNCHANGED nonSchedVars

\* `if self.interval == SchedulerInterval::None { break; }`
BreaksNever(i) == FALSE
BreaksAfterTrigger(i) == i = None

\* the trigger: the callback is called inside catch_unwind (scheduler.rs
\* 88-92), or OnTrigger is sent (schedule_receiver.rs 118-119); then the loop
\* breaks for the interval None, and otherwise goes on, in schedule_receiver.rs
\* through calculate_next_run
SchedTrigger ==
    /\ schedPc = "trigger"
    /\ Len(trigAt) < MaxTriggers
    /\ trigAt' = Append(trigAt, [instant |-> instant, at |-> clock])
    /\ IF BreaksAfterTrigger(interval)
       THEN /\ schedPc' = "task_done"
            /\ UNCHANGED << now, calculated_next_run >>
       ELSE IF schedGen = "scheduler"
       THEN /\ schedPc' = "top"
            /\ UNCHANGED << now, calculated_next_run >>
       ELSE EnterCalculation
    /\ UNCHANGED << clock, start, interval, next_run >>
    /\ UNCHANGED << schedGen, instant >>
    /\ UNCHANGED nonSchedVars

\* select! arm sigterm.recv() / sigint.recv(): abort_all(); break, and
\* receive() returns
SchedSignal ==
    /\ schedPc \in {"top", "sleeping", "woken", "recalculating", "trigger", "task_done", "task_panicked"}
    /\ schedPc' = "stopped"
    /\ UNCHANGED << clock, start, interval, next_run, now, calculated_next_run >>
    /\ UNCHANGED << schedGen, instant, trigAt >>
    /\ UNCHANGED nonSchedVars

\* select! arm join_next(): Some(result) for the ended task, then None => break
SchedJoin ==
    /\ schedPc \in {"task_done", "task_panicked"}
    /\ schedPc' = "returned"
    /\ UNCHANGED << clock, start, interval, next_run, now, calculated_next_run >>
    /\ UNCHANGED << schedGen, instant, trigAt >>
    /\ UNCHANGED nonSchedVars

\* ScheduleReceiver::new().start_date(..).start_time(..).interval(..)
InitSched ==
    /\ InitService
    /\ variant = "http_receiver"
    /\ ~tls
    /\ ~subscribed
    /\ NoClassification
    /\ NoRouter
    /\ NoResponse
    /\ NoRequest
    /\ NoStatus
    /\ NoFilePoll
    /\ clock = 0
    /\ start \in 0..MaxTime
    /\ interval \in IntervalSettings
    /\ next_run = start
    /\ now = 0
    /\ calculated_next_run = 0
    /\ schedPc = "configured"
    /\ schedGen \in SchedulerGenerations
    /\ instant = 0
    /\ trigAt = <<>>
    /\ NoWire

NextSched ==
    \/ SchedTick
    \/ Scheduler_receive
    \/ calculate_next_run
    \/ SchedSpawn
    \/ SchedLoopTop
    \/ SchedWake
    \/ SchedAfterSleep
    \/ SchedTrigger
    \/ SchedSignal
    \/ SchedJoin

SpecSched == InitSched /\ [][NextSched]_vars

\* ------------------------------------------------------------- HttpStatus
\* the largest u16
MaxCode == 65535

\* enum HttpStatus with #[repr(u16)]: the variants and their discriminants
HttpStatus ==
    { "Continue", "SwitchingProtocols", "EarlyHints",
      "Ok", "Created", "Accepted", "NoContent", "PartialContent",
      "MovedPermanently", "Found", "SeeOther", "NotModified",
      "TemporaryRedirect", "PermanentRedirect",
      "BadRequest", "Unauthorized", "Forbidden", "NotFound", "MethodNotAllowed",
      "InternalServerError", "NotImplemented", "BadGateway", "ServiceUnavailable",
      "GatewayTimeout" }

\* HttpStatus::code: self as u16
code(s) ==
    CASE s = "Continue" -> 100
      [] s = "SwitchingProtocols" -> 101
      [] s = "EarlyHints" -> 103
      [] s = "Ok" -> 200
      [] s = "Created" -> 201
      [] s = "Accepted" -> 202
      [] s = "NoContent" -> 204
      [] s = "PartialContent" -> 206
      [] s = "MovedPermanently" -> 301
      [] s = "Found" -> 302
      [] s = "SeeOther" -> 303
      [] s = "NotModified" -> 304
      [] s = "TemporaryRedirect" -> 307
      [] s = "PermanentRedirect" -> 308
      [] s = "BadRequest" -> 400
      [] s = "Unauthorized" -> 401
      [] s = "Forbidden" -> 403
      [] s = "NotFound" -> 404
      [] s = "MethodNotAllowed" -> 405
      [] s = "InternalServerError" -> 500
      [] s = "NotImplemented" -> 501
      [] s = "BadGateway" -> 502
      [] s = "ServiceUnavailable" -> 503
      [] s = "GatewayTimeout" -> 504

Ok(s) == [ok |-> TRUE, status |-> s]
Err == [ok |-> FALSE, status |-> ""]

\* HttpStatus::from_code: the match on the code, arm by arm
from_code_early_hints_102(c) ==
    CASE c = 100 -> Ok("Continue")
      [] c = 101 -> Ok("SwitchingProtocols")
      [] c = 102 -> Ok("EarlyHints")
      [] c = 200 -> Ok("Ok")
      [] c = 201 -> Ok("Created")
      [] c = 202 -> Ok("Accepted")
      [] c = 204 -> Ok("NoContent")
      [] c = 206 -> Ok("PartialContent")
      [] c = 301 -> Ok("MovedPermanently")
      [] c = 302 -> Ok("Found")
      [] c = 303 -> Ok("SeeOther")
      [] c = 304 -> Ok("NotModified")
      [] c = 307 -> Ok("TemporaryRedirect")
      [] c = 308 -> Ok("PermanentRedirect")
      [] c = 400 -> Ok("BadRequest")
      [] c = 401 -> Ok("Unauthorized")
      [] c = 403 -> Ok("Forbidden")
      [] c = 404 -> Ok("NotFound")
      [] c = 405 -> Ok("MethodNotAllowed")
      [] c = 500 -> Ok("InternalServerError")
      [] c = 501 -> Ok("NotImplemented")
      [] c = 502 -> Ok("BadGateway")
      [] c = 503 -> Ok("ServiceUnavailable")
      [] c = 504 -> Ok("GatewayTimeout")
      [] OTHER -> Err
from_code(c) ==
    CASE c = 100 -> Ok("Continue")
      [] c = 101 -> Ok("SwitchingProtocols")
      [] c = 103 -> Ok("EarlyHints")
      [] c = 200 -> Ok("Ok")
      [] c = 201 -> Ok("Created")
      [] c = 202 -> Ok("Accepted")
      [] c = 204 -> Ok("NoContent")
      [] c = 206 -> Ok("PartialContent")
      [] c = 301 -> Ok("MovedPermanently")
      [] c = 302 -> Ok("Found")
      [] c = 303 -> Ok("SeeOther")
      [] c = 304 -> Ok("NotModified")
      [] c = 307 -> Ok("TemporaryRedirect")
      [] c = 308 -> Ok("PermanentRedirect")
      [] c = 400 -> Ok("BadRequest")
      [] c = 401 -> Ok("Unauthorized")
      [] c = 403 -> Ok("Forbidden")
      [] c = 404 -> Ok("NotFound")
      [] c = 405 -> Ok("MethodNotAllowed")
      [] c = 500 -> Ok("InternalServerError")
      [] c = 501 -> Ok("NotImplemented")
      [] c = 502 -> Ok("BadGateway")
      [] c = 503 -> Ok("ServiceUnavailable")
      [] c = 504 -> Ok("GatewayTimeout")
      [] OTHER -> Err

\* s.code() is evaluated for the variant at hand
StatusCode ==
    /\ statusPc = "variant"
    /\ status_code' = code(status)
    /\ statusPc' = "code"
    /\ UNCHANGED << status, status_result >>
    /\ UNCHANGED nonStatusVars

\* HttpStatus::from_code(code) is evaluated
StatusFromCode ==
    /\ statusPc = "code"
    /\ status_result' = from_code(status_code)
    /\ statusPc' = "done"
    /\ UNCHANGED << status, status_code >>
    /\ UNCHANGED nonStatusVars

\* either a variant is at hand, or a u16 that came from elsewhere
InitStatus ==
    /\ InitService
    /\ variant = "http_receiver"
    /\ ~tls
    /\ ~subscribed
    /\ NoClassification
    /\ NoRouter
    /\ NoResponse
    /\ NoRequest
    /\ NoScheduler
    /\ statusPc \in {"variant", "code"}
    /\ status \in (IF statusPc = "variant" THEN HttpStatus ELSE {""})
    /\ status_code \in (IF statusPc = "code" THEN 0..MaxCode ELSE {0})
    /\ status_result = NoResult
    /\ NoFilePoll
    /\ NoWire

NextStatus ==
    \/ StatusCode
    \/ StatusFromCode

SpecStatus == InitStatus /\ [][NextStatus]_vars

\* ------------------------------------------------- FileReceiver
MaxPolls == 2          \* directory listings of one poll_directory run

\* the files of the polled directory and the filters registered with filter()
FileNames == {"a.txt", "b.csv"}
Filters == {".*", "csv$"}

\* Regex::is_match of a filter on a file name
is_match(filter, name) ==
    \/ filter = ".*"
    \/ filter = "csv$" /\ name = "b.csv"

\* filter_map.iter(): a HashMap yields its entries in an order of its own
FilterOrders == { <<".*", "csv$">>, <<"csv$", ".*">> }

\* get_files_in_directory: the files that are there, in the order of read_dir
Listings == { <<>>, <<"a.txt">>, <<"b.csv">>, <<"a.txt", "b.csv">>, <<"b.csv", "a.txt">> }

\* the file names of one filter that reach the ignore_list check
OfFilter(filter, files) ==
    LET hit == SelectSeq(files, LAMBDA n : is_match(filter, n))
    IN  [i \in 1..Len(hit) |-> << filter, hit[i] >>]

\* the nested loops: for every filter, for every file, if regex.is_match
RECURSIVE Visits(_, _)
Visits(order, files) ==
    IF order = <<>> THEN <<>>
    ELSE OfFilter(Head(order), files) \o Visits(Tail(order), files)

\* Vec::contains
contains_nothing(list, name) == FALSE
contains(list, name) == \E i \in 1..Len(list) : list[i] = name

\* unlocked_list.iter().position(|item| item == &file_name), 0 for None
position(list, name) ==
    IF \E i \in 1..Len(list) : list[i] = name
    THEN CHOOSE i \in 1..Len(list) :
            list[i] = name /\ \A j \in 1..(i - 1) : list[j] # name
    ELSE 0

\* Vec::remove(pos)
remove(list, pos) == SubSeq(list, 1, pos - 1) \o SubSeq(list, pos + 1, Len(list))

NoTasks == [n \in FileNames |-> 0]

\* get_files_in_directory returns Ok(files): the scan starts
FPoll ==
    /\ fPc = "tick"
    /\ polls < MaxPolls
    /\ \E files \in Listings :
        /\ fFiles' = files
        /\ fWork' = Visits(fOrder, files)
    /\ fPc' = "scan"
    /\ polls' = polls + 1
    /\ UNCHANGED << fOrder, fCur, fLast, ignore_list, callbacks, finishing >>
    /\ UNCHANGED nonFileVars

\* get_files_in_directory returns Err: nothing is done until the next tick
FPollErr ==
    /\ fPc = "tick"
    /\ polls < MaxPolls
    /\ polls' = polls + 1
    /\ UNCHANGED << fPc, fOrder, fFiles, fWork, fCur, fLast, ignore_list, callbacks, finishing >>
    /\ UNCHANGED nonFileVars

\* one matching (filter, file): under the lock, continue when the name is in
\* the list, otherwise push it
FCheck ==
    /\ fPc = "scan"
    /\ fWork # <<>>
    /\ LET name == Head(fWork)[2]
       IN  /\ fCur' = name
           /\ IF contains(ignore_list, name)
              THEN /\ fLast' = "skipped"
                   /\ UNCHANGED << fPc, ignore_list >>
              ELSE /\ fLast' = "listed"
                   /\ ignore_list' = Append(ignore_list, name)
                   /\ fPc' = "send"
    /\ fWork' = Tail(fWork)
    /\ UNCHANGED << fOrder, fFiles, callbacks, finishing, polls >>
    /\ UNCHANGED nonFileVars

\* event_broadcast.send(OnFileReceived).await returns Ok, then join_set.spawn
FSendSpawn ==
    /\ fPc = "send"
    /\ callbacks' = [callbacks EXCEPT ![fCur] = @ + 1]
    /\ fPc' = "scan"
    /\ UNCHANGED << fOrder, fFiles, fWork, fCur, fLast, ignore_list, finishing, polls >>
    /\ UNCHANGED nonFileVars

\* the send returns Err (the task of on_event has left on the signal and has
\* dropped the receiver): unwrap panics poll_directory, join_set is dropped and
\* its tasks are aborted
FSendPanic ==
    /\ fPc = "send"
    /\ fPc' = "panicked"
    /\ fWork' = <<>>
    /\ callbacks' = NoTasks
    /\ finishing' = NoTasks
    /\ UNCHANGED << fOrder, fFiles, fCur, fLast, ignore_list, polls >>
    /\ UNCHANGED nonFileVars

\* the loops are through: interval.tick().await, and the select! starts again
FScanEnd ==
    /\ fPc = "scan"
    /\ fWork = <<>>
    /\ fPc' = "tick"
    /\ UNCHANGED << fOrder, fFiles, fWork, fCur, fLast, ignore_list, callbacks, finishing, polls >>
    /\ UNCHANGED nonFileVars

\* select! arm sigterm.recv() / sigint.recv() => break: the scan is dropped
\* where it waits
FSignal ==
    /\ fPc \in {"tick", "scan", "send"}
    /\ fPc' = "drain"
    /\ fWork' = <<>>
    /\ UNCHANGED << fOrder, fFiles, fCur, fLast, ignore_list, callbacks, finishing, polls >>
    /\ UNCHANGED nonFileVars

\* callback(uuid, path).await returns in the task spawned for name
FCallbackDone(name) ==
    /\ callbacks[name] > 0
    /\ callbacks' = [callbacks EXCEPT ![name] = @ - 1]
    /\ finishing' = [finishing EXCEPT ![name] = @ + 1]
    /\ UNCHANGED << fPc, fOrder, fFiles, fWork, fCur, fLast, ignore_list, polls >>
    /\ UNCHANGED nonFileVars

\* the callback panics: the task ends and the name stays in the list
FCallbackPanic(name) ==
    /\ callbacks[name] > 0
    /\ callbacks' = [callbacks EXCEPT ![name] = @ - 1]
    /\ UNCHANGED << fPc, fOrder, fFiles, fWork, fCur, fLast, ignore_list, finishing, polls >>
    /\ UNCHANGED nonFileVars

\* the task takes the lock and removes the name from the list
FUnlist(name) ==
    /\ finishing[name] > 0
    /\ finishing' = [finishing EXCEPT ![name] = @ - 1]
    /\ ignore_list' = IF position(ignore_list, name) # 0
                      THEN remove(ignore_list, position(ignore_list, name))
                      ELSE ignore_list
    /\ UNCHANGED << fPc, fOrder, fFiles, fWork, fCur, fLast, callbacks, polls >>
    /\ UNCHANGED nonFileVars

\* join_set.join_next() returns None: poll_directory returns
FReturn ==
    /\ fPc = "drain"
    /\ callbacks = NoTasks
    /\ finishing = NoTasks
    /\ fPc' = "returned"
    /\ UNCHANGED << fOrder, fFiles, fWork, fCur, fLast, ignore_list, callbacks, finishing, polls >>
    /\ UNCHANGED nonFileVars

InitFile ==
    /\ InitService
    /\ variant = "http_receiver"
    /\ ~tls
    /\ ~subscribed
    /\ NoClassification
    /\ NoRouter
    /\ NoResponse
    /\ NoRequest
    /\ NoScheduler
    /\ NoStatus
    /\ fPc = "tick"
    /\ fOrder \in FilterOrders
    /\ fFiles = <<>>
    /\ fWork = <<>>
    /\ fCur = ""
    /\ fLast = "none"
    /\ ignore_list = <<>>
    /\ callbacks = NoTasks
    /\ finishing = NoTasks
    /\ polls = 0
    /\ NoWire

NextFile ==
    \/ FPoll
    \/ FPollErr
    \/ FCheck
    \/ FSendSpawn
    \/ FSendPanic
    \/ FScanEnd
    \/ FSignal
    \/ \E name \in FileNames : FCallbackDone(name)
    \/ \E name \in FileNames : FCallbackPanic(name)
    \/ \E name \in FileNames : FUnlist(name)
    \/ FReturn

SpecFile == InitFile /\ [][NextFile]_vars

\* ------------------------------------------- to_bytes and from_stream
\* A text is the sequence of its pieces; " " and ":" are pieces of their own,
\* a decimal number has one piece per digit.
HTTP11 == <<"HTTP/1.1">>

\* HttpResponse::new().status(code, text)
HttpResponse_status(number, text) ==
    [kind |-> "response", protocol |-> HTTP11, status_code |-> number, status_text |-> text,
     headers |-> {}, body |-> <<>>]

\* the preset constructors of HttpResponse
HttpResponse_ok == HttpResponse_status(200, <<"OK">>)
HttpResponse_found == HttpResponse_status(302, <<"Found">>)
HttpResponse_bad_request == HttpResponse_status(400, <<"Bad", " ", "Request">>)
HttpResponse_unauthorized == HttpResponse_status(401, <<"Unauthorized">>)
HttpResponse_forbidden == HttpResponse_status(403, <<"Forbidden">>)
HttpResponse_not_found == HttpResponse_status(404, <<"Not", " ", "Found">>)
HttpResponse_internal_server_error ==
    HttpResponse_status(500, <<"Internal", " ", "Server", " ", "Error">>)

Presets ==
    { HttpResponse_ok, HttpResponse_found, HttpResponse_bad_request, HttpResponse_unauthorized,
      HttpResponse_forbidden, HttpResponse_not_found, HttpResponse_internal_server_error }

\* HttpRequest::new().method(m).path(p)
HttpRequest_method_path(m, p) ==
    [kind |-> "request", method |-> m, path |-> p, protocol |-> HTTP11,
     headers |-> {}, body |-> <<>>]

RequestLines ==
    { HttpRequest_method_path(<<m>>, p) :
        m \in {"GET", "POST", "PUT", "DELETE"}, p \in { <<"/">>, <<"/users">> } }

\* the digits of n.to_string()
RECURSIVE Digits(_)
Digits(n) == IF n < 10 THEN << to_string(n) >> ELSE Append(Digits(n \div 10), to_string(n % 10))

IsDigit(piece) == \E d \in 0..9 : to_string(d) = piece

\* str::parse of an unsigned number: -1 for Err (a piece that is no digit, no
\* digit at all, or a value above max)
RECURSIVE ParseDigits(_)
ParseDigits(text) ==
    IF text = <<>> THEN 0
    ELSE 10 * ParseDigits(SubSeq(text, 1, Len(text) - 1)) + parse_or_0(text[Len(text)])
parse_unsigned(text, max) ==
    IF text = <<>> \/ \E i \in 1..Len(text) : ~IsDigit(text[i]) THEN -1
    ELSE IF ParseDigits(text) > max THEN -1
    ELSE ParseDigits(text)

\* header(key, value) and body_bytes(body) of both message types
Wire_header(m, key, value) == [m EXCEPT !.headers = MapInsert(@, key, value)]
Wire_body_bytes(m, body) ==
    [m EXCEPT !.body = body,
              !.headers = MapInsert(@, <<"Content-Length">>, Digits(Len(body)))]

\* the arguments of the builder calls
WireBodies == { [i \in 1..n |-> "a"] : n \in 0..MaxBody }
WireKeys == { <<"X-Id">>, <<"Content-Length">> }
WireValues == { <<"1">>, <<"2">>, <<" ", "x">> }

\* the messages: a preset or a request line, then body_bytes or not, then
\* header or not
WithBody(ms) == ms \cup { Wire_body_bytes(m, b) : m \in ms, b \in WireBodies }
WithHeader(ms) == ms \cup { Wire_header(m, k, v) : m \in ms, k \in WireKeys, v \in WireValues }
Messages == WithHeader(WithBody(Presets \cup RequestLines))

\* format!("{} {} {}", a, b, c)
FirstLine(a, b, c) == a \o <<" ">> \o b \o <<" ">> \o c

\* to_bytes of HttpResponse and of HttpRequest: the first line, one line
\* "key: value" per header, the empty line, the body
Wire_to_bytes(m) ==
    [first |-> IF m.kind = "response"
               THEN FirstLine(m.protocol, Digits(m.status_code), m.status_text)
               ELSE FirstLine(m.method, m.path, m.protocol),
     lines |-> { h[1] \o <<":", " ">> \o h[2] : h \in m.headers },
     body |-> m.body]

\* str::split_whitespace: the runs of pieces between the blanks
RECURSIVE SplitFrom(_, _, _)
SplitFrom(text, run, done) ==
    LET closed == IF run = <<>> THEN done ELSE Append(done, run)
    IN  IF text = <<>> THEN closed
        ELSE IF Head(text) = " " THEN SplitFrom(Tail(text), <<>>, closed)
        ELSE SplitFrom(Tail(text), Append(run, Head(text)), done)
split_whitespace(text) == SplitFrom(text, <<>>, <<>>)

\* str::trim
RECURSIVE trim_start(_)
trim_start(text) ==
    IF text # <<>> /\ Head(text) = " " THEN trim_start(Tail(text)) ELSE text
RECURSIVE trim_end(_)
trim_end(text) ==
    IF text # <<>> /\ text[Len(text)] = " "
    THEN trim_end(SubSeq(text, 1, Len(text) - 1)) ELSE text
trim(text) == trim_end(trim_start(text))

\* the place of the first ":" of a line, 0 when it has none
FirstColon(text) ==
    IF \E i \in 1..Len(text) : text[i] = ":"
    THEN CHOOSE i \in 1..Len(text) : text[i] = ":" /\ \A j \in 1..(i - 1) : text[j] # ":"
    ELSE 0

\* the header loop of from_stream: header.trim().split_once(":"), then
\* headers.insert(key.trim(), value.trim())
ParsedHeaders(lines) ==
    { << trim(SubSeq(trim(l), 1, FirstColon(trim(l)) - 1)),
         trim(SubSeq(trim(l), FirstColon(trim(l)) + 1, Len(trim(l)))) >> :
        l \in { x \in lines : FirstColon(trim(x)) # 0 } }

Panicked == [outcome |-> "panic", msg |-> NoMsg]
Failed == [outcome |-> "err", msg |-> NoMsg]

\* the first line of from_stream: first_line[0], [1], [2] of the split line;
\* HttpResponse parses the second as u16 and unwraps
FirstLineOf(kind, tokens, headers, body) ==
    IF kind = "response"
    THEN [kind |-> "response", protocol |-> tokens[1],
          status_code |-> parse_unsigned(tokens[2], MaxCode), status_text |-> tokens[3],
          headers |-> headers, body |-> body]
    ELSE [kind |-> "request", method |-> tokens[1], path |-> tokens[2], protocol |-> tokens[3],
          headers |-> headers, body |-> body]

\* from_stream of HttpResponse and of HttpRequest on the bytes of one message
\* followed by the end of the stream
Wire_from_stream(kind, bytes) ==
    LET tokens == split_whitespace(bytes.first)
        headers == ParsedHeaders(bytes.lines)
        sized == \E h \in headers : h[1] = <<"Content-Length">>
        length == IF sized
                  THEN LET v == (CHOOSE h \in headers : h[1] = <<"Content-Length">>)[2]
                       IN  IF parse_unsigned(v, 9) = -1 THEN 0 ELSE parse_unsigned(v, 9)
                  ELSE 0
    IN  IF Len(tokens) < 3 THEN Panicked
        ELSE IF kind = "response" /\ parse_unsigned(tokens[2], MaxCode) = -1 THEN Panicked
        ELSE IF length > Len(bytes.body) THEN Failed
        ELSE [outcome |-> "ok",
              msg |-> FirstLineOf(kind, tokens, headers, SubSeq(bytes.body, 1, length))]

\* to_bytes is called on the message
WireWrite ==
    /\ wPc = "built"
    /\ wBytes' = Wire_to_bytes(wMsg)
    /\ wPc' = "written"
    /\ UNCHANGED << wMsg, wResult >>
    /\ UNCHANGED nonWireVars

\* from_stream reads the bytes back
WireRead ==
    /\ wPc = "written"
    /\ wResult' = Wire_from_stream(wMsg.kind, wBytes)
    /\ wPc' = "read"
    /\ UNCHANGED << wMsg, wBytes >>
    /\ UNCHANGED nonWireVars

InitWire ==
    /\ InitService
    /\ variant = "http_receiver"
    /\ ~tls
    /\ ~subscribed
    /\ NoClassification
    /\ NoRouter
    /\ NoResponse
    /\ NoRequest
    /\ NoScheduler
    /\ NoStatus
    /\ NoFilePoll
    /\ wMsg \in Messages
    /\ wBytes = NoBytes
    /\ wResult = [outcome |-> "none", msg |-> NoMsg]
    /\ wPc = "built"

NextWire ==
    \/ WireWrite
    \/ WireRead

SpecWire == InitWire /\ [][NextWire]_vars

\* ------------------------------------------------------- specification
Next ==
    \/ Signal
    \/ AcceptOk
    \/ AcceptErr
    \/ LoopPublish
    \/ ObserveSignal
    \/ JoinNext
    \/ Return
    \/ ConsumerSignal
    \/ ConsumerRecv
    \/ ConsumerDone
    \/ \E c \in Conns : SessClassify(c)
    \/ \E c \in Conns : SessHandshake(c)
    \/ \E c \in Conns : SessDecode(c)
    \/ \E c \in Conns : SessPublish(c)
    \/ \E c \in Conns : SessHandlerReturn(c)
    \/ \E c \in Conns : SessHandlerPanic(c)
    \/ \E c \in Conns : SessWrite(c)
    \/ \E c \in Conns : ClientClose(c)
    \/ \E c \in Conns : H2PeerClose(c)
    \/ \E c \in Conns : H2StreamEnd(c)

Spec == Init /\ [][Next]_vars

TypeOK ==
    /\ variant \in Variants
    /\ loopPc \in {"select", "publish", "drain", "returned", "panicked"}
    /\ listener \in {"open", "closed"}
    /\ joinSet \subseteq Conns
    /\ chan \in 0..EventChannelCapacity
    /\ consumer \in {"none", "idle", "handling", "exited"}
    /\ \A c \in Conns : sess[c].st \in {"none", "accepted", "classify", "handshake", "decode",
                                         "pub_req", "handler", "write", "pub_resp", "closed"}

\* ---------------------------------------------------------------- claims
\* a session task that has been spawned and has not ended
Running(c) == sess[c].st \notin {"none", "accepted", "closed"}

\* C1: when receive() has returned after a shutdown signal, every session
\* whose handler was running when the signal arrived has written its response
C1_ShutdownDrains ==
    loopPc = "returned" => owed = {}

\* C2: once the loop has observed the signal the listener is closed before
\* the drain starts, and the shutdown cancels no tracked session
C2_StopAcceptingThenDrain ==
    loopPc \in {"drain", "returned"} =>
        /\ listener = "closed"
        /\ \A c \in Conns : sess[c].outcome # "aborted"

\* C3: a panic of the matched handler stays inside the session, which goes on
\* to write the fixed 500 with empty body as the answer to that request
C3_FaultBarrier ==
    [][\A c \in Conns :
          SessHandlerPanic(c) =>
              /\ sess'[c].st = "write"
              /\ sess'[c].resp = internal_server_error
              /\ loopPc' = loopPc]_vars

\* C4: a handler panic on one connection changes nothing of any other
\* connection, which goes on to write its own handler's response, and leaves
\* the accept loop, the listener and the in-flight group as they were; no
\* session is ever cut off except by the unwinding of receive() itself
C4_FaultIsolation ==
    /\ [](\A d \in Conns : sess[d].outcome = "aborted" => loopPc = "panicked")
    /\ [][\A c \in Conns :
             SessHandlerPanic(c) =>
                 /\ \A d \in Conns \ {c} : sess'[d] = sess[d]
                 /\ loopPc' = loopPc
                 /\ listener' = listener
                 /\ joinSet' = joinSet]_vars

\* C4 witness: one connection's handler has panicked while another connection
\* is writing the response its handler returned, and the loop is accepting
C4_Witness ==
    \E c, d \in Conns :
        /\ c # d
        /\ sess[c].kind = "panic" \/ sess[c].outcome = "handler_panic"
        /\ sess[d].st = "write" /\ sess[d].kind = "matched"
        /\ sess[d].resp.status = 200
        /\ loopPc = "select" /\ listener = "open"

\* C5: a request that matches no route is answered with the fixed 404 with
\* empty body and never reaches a handler
C5_UnmatchedIs404 ==
    \A c \in Conns :
        sess[c].kind = "nomatch" =>
            /\ sess[c].st # "handler"
            /\ sess[c].st = "write" => sess[c].resp = not_found

\* C6: while receive() runs, the in-flight group holds exactly the sessions
\* that have been spawned and have not yet reached Closed
C6_InFlightExact ==
    loopPc \in {"select", "publish", "drain"} =>
        joinSet = {c \in Conns : Running(c)}

\* a publisher is waiting for room in the event channel
PublisherBlocked ==
    /\ chanOpen
    /\ chan = EventChannelCapacity
    /\ \/ loopPc = "publish"
       \/ \E c \in Conns : sess[c].st \in {"pub_req", "pub_resp"}

\* C7: a session or the accept loop that publishes an event never waits for
\* events to be consumed
C7_PublishNeverBlocks == ~PublisherBlocked

\* C8: the number of published and not yet consumed events of an event
\* channel never exceeds the fixed capacity
C8_PendingBounded ==
    /\ chan <= EventChannelCapacity
    /\ Len(ehQueue) <= EventChannelCapacity

\* C9: no step that belongs to one connection (classification, handshake,
\* decode, write, publishing its events) ends the accept loop or ends another
\* connection's session
C9_ConnectionIsolation ==
    [][(LoopPublish \/ \E c \in Conns :
            SessClassify(c) \/ SessHandshake(c) \/ SessDecode(c) \/ SessWrite(c) \/ SessPublish(c))
        => /\ loopPc' # "panicked"
           /\ \A d \in Conns : sess'[d].outcome = "aborted" => sess[d].outcome = "aborted"]_vars

\* C10: a failed accept spawns no session and leaves the loop accepting
C10_AcceptErrorContinues ==
    [][AcceptErr =>
          /\ loopPc' = "select"
          /\ listener' = "open"
          /\ joinSet' = joinSet
          /\ sess' = sess]_vars

ClsErrors == {"err_nontls", "err_short", "err_io"}

\* C11: with at least 3 peeked bytes the stream is classified TLS exactly
\* when byte0 = 0x16, byte1 = 0x03 and byte2 is 0x01, 0x02 or 0x03; fewer than
\* 3 peeked bytes, a read error or any other prefix is a classification error
C11_Classification ==
    cls # "none" =>
        /\ cls \in {"ok"} \cup ClsErrors
        /\ (peeked.res = "ok" /\ Len(peeked.bytes) >= 3) =>
              (cls = "ok" <=> /\ peeked.bytes[1] = 22
                              /\ peeked.bytes[2] = 3
                              /\ peeked.bytes[3] \in {1, 2, 3})
        /\ (peeked.res = "err" \/ Len(peeked.bytes) < 3) => cls \in ClsErrors

\* C11 witness: a stream that starts with the record signature 16 03 01 has
\* been classified TLS
C11_Witness ==
    /\ cls = "ok"
    /\ Len(peeked.bytes) = MaxWire
    /\ SubSeq(peeked.bytes, 1, 3) = <<22, 3, 1>>

\* C12: classification leaves the read position where it was, on success and
\* on error, and the reader that runs next gets exactly the bytes an unpeeked
\* stream would have given it
C12_PeekConsumesNothing ==
    /\ (cls # "none" /\ taken = <<>>) => rpos = 0
    /\ taken # <<>> => taken = wire

\* C12 witness: the handshake has read the whole ClientHello prefix after a
\* successful classification
C12_Witness ==
    /\ cls = "ok"
    /\ peeked.bytes = wire
    /\ taken = wire
    /\ rpos = Len(wire)

\* how a session that never got past classification or the handshake is marked
ErrKinds == {"classify_err", "handshake_err"}

\* C13: on a TLS listener a session whose classification or handshake failed
\* only moves on to Closed (HttpReceiver reports the error and tries to write
\* the fixed 500 on the way): it never decodes a request, resolves a route or
\* invokes a handler, and every session that does has completed the upgrade
C13_FailedUpgradeCloses ==
    /\ [](\A c \in Conns :
            (tls /\ sess[c].st \in {"decode", "handler"}) => sess[c].proto \in {"h1", "h2"})
    /\ [][\A c \in Conns :
            /\ (sess[c].st = "classify" /\ sess'[c].st \notin {"classify", "handshake"})
                  => (sess'[c].st = "closed" \/ sess'[c].kind \in ErrKinds)
            /\ SessHandshakeErr(c)
                  => (sess'[c].st = "closed" \/ sess'[c].kind \in ErrKinds)
            /\ sess[c].kind \in ErrKinds
                  => \/ sess'[c].st \in {"pub_req", "write"} /\ sess'[c].kind = sess[c].kind
                     \/ sess'[c].st \in {"pub_resp", "closed"}
            /\ sess[c].st = "pub_resp" => sess'[c].st \in {"pub_resp", "closed"}
            /\ sess[c].st = "closed" => sess'[c].st = "closed"]_vars

\* C13 witness: on a TLS listener a session that failed its classification is
\* writing the fixed 500, with no protocol selected
C13_Witness ==
    /\ tls
    /\ \E c \in Conns :
          sess[c].kind = "classify_err" /\ sess[c].st = "write" /\ sess[c].proto = "none"

\* C14: a session is served over h2 only after it completed a TLS handshake;
\* a session spawned on a listener without TLS is served over h1 whatever
\* it does
C14_PlaintextIsH1 ==
    /\ [](\A c \in Conns :
            /\ sess[c].proto = "h2" => (tls /\ sess[c].st \notin {"accepted", "classify", "handshake"})
            /\ (~tls /\ Running(c)) => sess[c].proto = "h1")
    /\ [][\A c \in Conns :
            (sess'[c].proto = "h2" /\ sess[c].proto # "h2") => (tls /\ sess[c].st = "handshake")]_vars

\* C14 witness: a plaintext connection of HttpServer is in its handler, served
\* over h1
C14_Witness ==
    /\ ~tls
    /\ variant = "http_server"
    /\ \E c \in Conns : sess[c].st = "handler" /\ sess[c].proto = "h1"

\* C15: a successful TLS handshake selects h2 exactly when the negotiated ALPN
\* token is "h2", and h1 for every other token and for no token
C15_ProtocolFromAlpn ==
    [][\A c \in Conns : \A offer \in ClientOffers :
          (SessHandshakeOk(c, offer) /\ variant # "http_receiver") =>
              /\ sess'[c].proto \in {"h1", "h2"}
              /\ sess'[c].proto = "h2" <=> Negotiated(variant, offer) = "h2"]_vars

\* C15 witness: sessions of the newest server after their handshakes, one
\* served over h2 and one over h1
C15_Witness ==
    /\ variant = "server_http_server"
    /\ \E c, d \in Conns :
          /\ sess[c].st = "decode" /\ sess[c].proto = "h2"
          /\ sess[d].st = "decode" /\ sess[d].proto = "h1"

\* C16: a server that configures ALPN serves a TLS client that offers h2 and
\* http/1.1 over h2, and a TLS client that offers only http/1.1 over h1
C16_AlpnPrecedence ==
    [][\A c \in Conns :
          variant # "http_receiver" =>
              /\ SessHandshakeOk(c, {"h2", "http/1.1"}) => sess'[c].proto = "h2"
              /\ SessHandshakeOk(c, {"http/1.1"}) => sess'[c].proto = "h1"]_vars

\* C16 witness: HttpServer with TLS has one session in its handler over h2
\* and one over h1
C16_Witness ==
    /\ variant = "http_server"
    /\ tls
    /\ \E c, d \in Conns :
          /\ sess[c].st = "handler" /\ sess[c].proto = "h2"
          /\ sess[d].st = "handler" /\ sess[d].proto = "h1"

\* the state of the session life cycle a session is in: 1 Accepted,
\* 2 being classified, 3 Upgrading, 5 Serving (protocol selected), 6 closing
\* (only the error answer or the report of the response remains), 7 Closed
Phase(s) ==
    CASE s.st = "none" -> 0
      [] s.st = "accepted" -> 1
      [] s.st = "classify" -> 2
      [] s.st = "handshake" -> 3
      [] s.st \in {"decode", "handler"} -> 5
      [] s.st \in {"pub_req", "write"} -> IF s.kind \in ErrKinds THEN 6 ELSE 5
      [] s.st = "pub_resp" -> 6
      [] s.st = "closed" -> 7

\* C17: a session only moves forward through its life cycle: it never goes
\* back to a state it left, it upgrades only on a TLS listener (HttpReceiver:
\* only after it classified the stream as TLS), it starts serving only with
\* its protocol selected, straight after the spawn (plaintext) or after the
\* upgrade, and Closed is final
C17_ForwardOnly ==
    [][\A c \in Conns :
          /\ Phase(sess'[c]) >= Phase(sess[c])
          /\ (sess'[c].st = "handshake" /\ sess[c].st # "handshake") =>
                /\ tls
                /\ IsReceiver => sess[c].st = "classify"
          /\ (sess'[c].st = "classify" /\ sess[c].st # "classify") => tls
          /\ (Phase(sess'[c]) = 5 /\ Phase(sess[c]) # 5) =>
                /\ sess'[c].proto \in {"h1", "h2"}
                /\ IF tls THEN sess[c].st = "handshake" ELSE sess[c].st \in {"none", "accepted"}
          /\ sess[c].st = "closed" => sess'[c] = sess[c]]_vars

\* C17 witness: on a TLS listener one session has run to Closed while another
\* one, upgraded, is being served
C17_Witness ==
    /\ tls
    /\ \E c, d \in Conns :
          /\ sess[c].st = "closed" /\ sess[c].outcome = "done"
          /\ sess[d].st = "write" /\ sess[d].proto \in {"h1", "h2"}

Matching == { p \in Registered(routes) : PatternMatches(p, rtOut.path) }

\* C19: a request whose path matches a registered pattern reaches the
\* callback of a registered pattern that matches it, and the request handed
\* to the callback carries exactly that pattern's parameter bindings (none
\* for a pattern without parameters)
C19_ParamsExact ==
    rtOut.res # "none" =>
        /\ Matching # {} => rtOut.res = "handler"
        /\ rtOut.res = "handler" =>
              \E p \in Matching :
                  /\ rtOut.cb = {p}
                  /\ rtOut.params = Bindings(p, rtOut.path)

FirstCall(p) == CHOOSE k \in 1..Len(routes) : routes[k] = p /\ \A j \in 1..(k - 1) : routes[j] # p

\* C21: registering a route fails when the pattern is already registered or,
\* where patterns have a syntax (matchit), is invalid: no call that returned
\* added such a pattern, and the route table maps every pattern to the
\* handler of the first call that gave it.
C21_DuplicateRejected ==
    /\ \A i, j \in 1..Len(routes) : i < j => routes[i] # routes[j]
    /\ variant # "http_receiver" => \A i \in 1..Len(routes) : ValidPattern(routes[i])
    /\ \A e \in rtMap : e[1] \in Registered(routes) /\ e[2] = FirstCall(e[1])

\* a header name in ASCII lower case
Lower(name) ==
    IF name = "Content-Length" THEN "content-length"
    ELSE IF name = "X-Id" THEN "x-id"
    ELSE name

\* C22: every response written with a non-empty body carries exactly one
\* content-length header, whatever the letter case of its name, and the value
\* of that header is the length of the body.
C22_OneExactContentLength ==
    (respPc = "written" /\ respOut.body # 0) =>
        LET cl == { e \in respOut.lines : Lower(e[1]) = "content-length" }
        IN  /\ Cardinality(cl) = 1
            /\ \A e \in cl : e[2] = to_string(respOut.body)

\* the value last written under a name equal to `name` up to letter case
LastWritten(log, name) ==
    LET at == { i \in 1..Len(log) : Lower(log[i][1]) = Lower(name) }
    IN  IF at = {} THEN Absent ELSE log[CHOOSE i \in at : \A j \in at : j <= i][2]

\* C23: request headers are case-insensitive with last-write-wins: a lookup by
\* any casing finds the value last set or received under that name in any
\* casing, and the body read has the length the last content-length says.
C23_HeadersCaseInsensitive ==
    /\ \A n \in HeaderNames : MapGet(reqHeaders, n) = LastWritten(reqLog, n)
    /\ reqPc = "done" => reqBody = parse_or_0(LastWritten(reqLog, "Content-Length"))

C25_Subscribers ==
    /\ ~ehInitPanic
    /\ \A i \in 1..Len(ehHandled) : ehHandled[i] > ehSubAt
    /\ \A i, j \in 1..Len(ehHandled) : i < j => ehHandled[i] < ehHandled[j]

\* C26: shutdown() called after init, whatever the loop task is doing at that
\* moment, eventually returns.
C26_ShutdownReturns ==
    (ehShutdown = "joining" /\ ehLoop # "not_init") ~> (ehShutdown = "returned")

\* C27: with a start before the time of receive(), the first run time is
\* computed for every interval setting: the computation does not panic, each
\* turn of its loop brings the candidate nearer to now, and the result is not
\* before now and is the start plus a whole number of intervals.
C27_FirstRunFuture ==
    /\ schedPc # "panicked"
    /\ (schedPc = "calculating" /\ calculated_next_run < now) => interval_duration(interval) > 0
    /\ (schedPc = "scheduled" /\ start < now) =>
            /\ next_run >= now
            /\ \E k \in 0..(2 * DateRange) : next_run = start + k * interval_duration(interval)

C29_DecodeFailureHandled ==
    /\ [](\A c \in Conns : sess[c].kind = "decode_err" =>
            /\ sess[c].st \in {"pub_req", "write"}
            /\ sess[c].st = "write" => sess[c].resp = internal_server_error)
    /\ [][\A c \in Conns : \A res \in DecodeResults(variant) \ {"ok"} :
            SessDecodeAs(c, res) =>
                /\ sess'[c].outcome = "none"
                /\ sess'[c].kind = "decode_err"]_vars

\* C30: on a listener with TLS, nothing is written to a connection whose
\* first bytes were not classified as TLS or whose handshake failed.
C30_NoBytesToNonTls ==
    [][\A c \in Conns : (tls /\ SessWrite(c)) =>
            sess[c].kind \notin {"classify_err", "handshake_err"}]_vars

\* some registered route has a pattern that matches the path
SomeRouteMatches(path) == \E rt \in RegisteredRoutes : PatternMatches(rt.pattern, path)

\* C31: in HttpServer the response to a request is decided in the same way
\* over plaintext H1, TLS H1 and TLS H2: a handler runs exactly for a request
\* whose path a registered route matches, a request no route matches gets the
\* fixed unmatched response, and a failed decode or a panicking handler the
\* fixed 500, whatever protocol the session speaks.
C31_SamePathH1H2 ==
    ~IsReceiver =>
        \A c \in Conns :
            /\ sess[c].st = "handler" => SomeRouteMatches(sess[c].req.path)
            /\ (sess[c].st = "write" /\ sess[c].kind = "nomatch") =>
                    /\ ~SomeRouteMatches(sess[c].req.path)
                    /\ sess[c].resp = UnmatchedResponse(variant)
            /\ (sess[c].st = "write" /\ sess[c].kind \in {"panic", "decode_err"}) =>
                    sess[c].resp = internal_server_error

\* C31 witness: on a TLS listener one session speaks H1 and another H2, and
\* both run the handler for the same request GET /users/42.
C31_Witness ==
    /\ ~IsReceiver
    /\ tls
    /\ \E c, d \in Conns :
        /\ sess[c].proto = "h1" /\ sess[d].proto = "h2"
        /\ sess[c].st = "handler" /\ sess[d].st = "handler"
        /\ sess[c].req = sess[d].req
        /\ sess[c].req.path = <<"users", "42">>

\* a handler invocation of connection c is running: inside the session task,
\* or inside a task the executor spawned for one of its H2 streams
HandlerRunning(c) == sess[c].st = "handler" \/ c \in h2Detached

\* C32: whenever receive() has returned after a shutdown signal, no handler
\* invocation of the server is still running, H2 streams included (hyper
\* variants).
C32_HandlersInsideJoinSet ==
    (~IsReceiver /\ signalled /\ loopPc = "returned") =>
        \A c \in Conns : ~HandlerRunning(c)

\* the event sequences of one connection of HttpReceiver (http_receiver.rs
\* 28-35: the kinds of HttpReceiverEventSignal)
EventSequences ==
    { <<"OnConnectionReceived", q, r>> :
        q \in {"OnRequestSuccess", "OnRequestError"},
        r \in {"OnResponseSuccess", "OnResponseError"} }

IsPrefix(l, m) == Len(l) <= Len(m) /\ \A i \in 1..Len(l) : l[i] = m[i]

\* the events of every connection so far are the beginning of one of the
\* event sequences, the request event is there before the handler runs and
\* the response event is not there before the write was attempted
EventsInOrder ==
    \A c \in Conns :
        /\ \E m \in EventSequences : IsPrefix(published[c], m)
        /\ sess[c].st = "handler" =>
                published[c] = <<"OnConnectionReceived", "OnRequestSuccess">>
        /\ sess[c].st \in {"write", "pub_resp"} => Len(published[c]) = 2

\* C33: for each connection id the events HttpReceiver publishes form exactly
\* OnConnectionReceived, then OnRequestSuccess or OnRequestError, then
\* OnResponseSuccess or OnResponseError; OnRequestSuccess precedes the handler
\* invocation, the response event follows the write attempt, and it is
\* OnResponseSuccess exactly when the write succeeded.
C33_EventSequence ==
    /\ [](IsReceiver =>
            /\ EventsInOrder
            /\ \A c \in Conns : sess[c].st = "closed" => published[c] \in EventSequences)
    /\ [][IsReceiver =>
            \A c \in Conns :
                (Len(published'[c]) = 3 /\ Len(published[c]) = 2) =>
                    /\ sess[c].st = "pub_resp"
                    /\ (published'[c][3] = "OnResponseSuccess" <=> sess[c].sent = "ok")]_vars

\* the events the handler has been called with
Handled == { ehHandled[i] : i \in 1..Len(ehHandled) }

\* C34: no event is lost on EventHandler shutdown: once shutdown() has
\* returned after ending the handler's loop, every event sent before
\* shutdown() was called has been passed to the handler.
C34_NoEventLost ==
    (ehShutdown = "returned" /\ ehLoop = "done") =>
        \A e \in 1..ehShutAt : e \in Handled

\* C35: FileReceiver::poll_directory runs at most one callback per file name
\* at any time, and while a callback of a file is running the file's name
\* is in the ignore list, so that neither a later poll nor another matching
\* filter starts a second one.
C35_OneCallbackPerFile ==
    \A n \in FileNames :
        /\ callbacks[n] <= 1
        /\ callbacks[n] = 1 => \E i \in 1..Len(ignore_list) : ignore_list[i] = n

\* C35 happens: in a later poll the scan has come to a file whose callback is
\* in flight and has passed it by
C35_Witness ==
    /\ polls = 2
    /\ fLast = "skipped"
    /\ fCur \in FileNames
    /\ callbacks[fCur] = 1

\* the instants of the triggers so far grow from each trigger to the next
InstantsIncrease ==
    \A i \in 1..(Len(trigAt) - 1) : trigAt[i].instant < trigAt[i + 1].instant

\* C36: with a repeating interval the instants the scheduler triggers for are
\* strictly increasing from one trigger to the next, and the computation of
\* the next run in the trigger loop ends for every interval value: it does
\* not panic and every turn of its loop brings the candidate nearer to now.
C36_NextRunAdvances ==
    interval # None =>
        /\ InstantsIncrease
        /\ schedPc # "task_panicked"
        /\ (schedPc = "recalculating" /\ calculated_next_run < now) =>
                interval_duration(interval) > 0

\* C37: with the interval None the scheduler triggers once and no more, not
\* before the configured start; after the trigger the task has ended, and
\* receive() returns only after the trigger unless a signal stopped it.
C37_TriggersOnce ==
    interval = None =>
        /\ Len(trigAt) <= 1
        /\ \A i \in 1..Len(trigAt) : trigAt[i].at >= start /\ trigAt[i].instant = start
        /\ Len(trigAt) = 1 => schedPc \in {"task_done", "returned", "stopped"}
        /\ schedPc \in {"task_done", "returned"} => Len(trigAt) = 1

\* C37 happens: a start ahead of the clock, the interval None, one trigger
\* after the sleep, and receive() has returned without a signal
C37_Witness ==
    /\ interval = None
    /\ start > 0
    /\ schedPc = "returned"
    /\ Len(trigAt) = 1
    /\ trigAt[1].at >= start

\* C38: wire round trip: for every response built with a preset constructor,
\* header() and body_bytes(), and for every request built with method(),
\* path(), header() and body_bytes(), from_stream of to_bytes returns Ok with
\* a message equal to the one that was written.
C38_WireRoundTrip ==
    wPc = "read" => wResult = [outcome |-> "ok", msg |-> wMsg]

====
